---------------------------- MODULE Spec2Model ----------------------------
(***************************************************************************)
(* A model of the remote-object synchronisation engine of ad_data_lake:    *)
(*   - make_api_request        (src/src/utils/api_helpers.py)              *)
(*   - sanitize_payload, create_ad_object  (src/src/utils/api_helpers.py)  *)
(*   - execute_batch_requests  (src/src/main_extractor.py)                 *)
(*   - create_campaign_from_template and the payload assembly             *)
(*                             (src/pages/1_Campaign_Cloner.py)            *)
(* Each component has its own record variable and its own specification;   *)
(* a specification leaves the other components' variables at their idle    *)
(* value.  Two more components: the objects (dicts) a cloning run shares   *)
(* with its template (mem), and upload_asset with its temporary file (up). *)
(***************************************************************************)
EXTENDS Integers, Sequences, FiniteSets, TLC

VARIABLES mar, batch, clone, san, mem, up

vars == <<mar, batch, clone, san, mem, up>>

(***************************************************************************)
(* Bounds of the model.                                                    *)
(***************************************************************************)
MaxRetries == 3
MaxRequests == 3
MaxChunkSize == 2
MaxChunkRetries == 2
MaxAdSets == 2
MaxAds == 2

(***************************************************************************)
(* Generic helpers.                                                        *)
(***************************************************************************)
Max(a, b) == IF a >= b THEN a ELSE b

Min(a, b) == IF a <= b THEN a ELSE b

RECURSIVE Pow2(_)
Pow2(n) == IF n <= 0 THEN 1 ELSE 2 * Pow2(n - 1)

Range(s) == {s[i] : i \in DOMAIN s}

\* Python's None, as a value of the model.
None == [t |-> "none"]

(***************************************************************************)
(* Python values.  A string is a sequence of one-character strings; a      *)
(* number is an int or a float (a float is held in tenths, so the model's  *)
(* floats have at most one fractional digit); a dict is a function from    *)
(* its keys to values.                                                     *)
(***************************************************************************)
Str(chars) == [t |-> "str", s |-> chars]

PyInt(n) == [t |-> "int", n |-> n]

PyFloat(tenths) == [t |-> "float", n |-> tenths]

PyBool(b) == [t |-> "bool", b |-> b]

PyList(l) == [t |-> "list", l |-> l]

PyDict(d) == [t |-> "dict", d |-> d]

\* The function f with key k removed (dict.pop(k, None)) and set (d[k] = v).
Pop(f, k) == [x \in DOMAIN f \ {k} |-> f[x]]

Put(f, k, v) == [x \in DOMAIN f \cup {k} |-> IF x = k THEN v ELSE f[x]]

\* dict.get(k): None for a missing key.
Get(f, k) == IF k \in DOMAIN f THEN f[k] ELSE None

Digits == <<"0", "1", "2", "3", "4", "5", "6", "7", "8", "9">>

IsDigit(c) == \E i \in 1..10 : Digits[i] = c

DigitValue(c) == (CHOOSE i \in 1..10 : Digits[i] = c) - 1

\* str.strip() for the blank character of the model.
RECURSIVE LStrip(_)
LStrip(s) == IF s # <<>> /\ Head(s) = " " THEN LStrip(Tail(s)) ELSE s

RECURSIVE RStrip(_)
RStrip(s) == IF s # <<>> /\ s[Len(s)] = " " THEN RStrip(SubSeq(s, 1, Len(s) - 1)) ELSE s

Strip(s) == RStrip(LStrip(s))

\* str.isdigit() on a non-empty string.
AllDigits(s) == s # <<>> /\ \A i \in DOMAIN s : IsDigit(s[i])

\* The value of a string of digits.
RECURSIVE DigitsValue(_)
DigitsValue(s) == IF s = <<>> THEN 0 ELSE 10 * DigitsValue(SubSeq(s, 1, Len(s) - 1)) + DigitValue(s[Len(s)])

\* str(n) for an integer n.
RECURSIVE NatToChars(_)
NatToChars(n) == IF n < 10 THEN <<Digits[n + 1]>> ELSE NatToChars(n \div 10) \o <<Digits[(n % 10) + 1]>>

IntToChars(n) == IF n < 0 THEN <<"-">> \o NatToChars(-n) ELSE NatToChars(n)

\* The text of a number without its sign, the positions of its dots, and the digits
\* before and after the dot.
Unsigned(t, signs) == IF t # <<>> /\ Head(t) \in signs THEN Tail(t) ELSE t

DotPositions(u) == {i \in DOMAIN u : u[i] = "."}

IntegerPart(u, dots) == IF dots = {} THEN u ELSE SubSeq(u, 1, (CHOOSE i \in dots : TRUE) - 1)

FractionPart(u, dots) ==
    IF dots = {} THEN <<>> ELSE SubSeq(u, (CHOOSE i \in dots : TRUE) + 1, Len(u))

FloatOfParts(neg, dots, ip, fp) ==
    IF /\ Cardinality(dots) <= 1
       /\ ip \o fp # <<>>
       /\ \A i \in DOMAIN ip : IsDigit(ip[i])
       /\ \A i \in DOMAIN fp : IsDigit(fp[i])
       /\ Len(fp) <= 1
      THEN [ok |-> TRUE,
            tenths |-> (IF neg THEN -1 ELSE 1) * (10 * DigitsValue(ip) + DigitsValue(fp))]
      ELSE [ok |-> FALSE, tenths |-> 0]

FloatOfUnsigned(neg, u, dots) ==
    FloatOfParts(neg, dots, IntegerPart(u, dots), FractionPart(u, dots))

FloatOfStripped(t, u) == FloatOfUnsigned(t # <<>> /\ Head(t) = "-", u, DotPositions(u))

FloatOfText(t) == FloatOfStripped(t, Unsigned(t, {"-", "+"}))

\* float(s) for the strings of the model: blanks around, an optional sign, digits with
\* at most one fractional digit ("12", "-3", "0.5", "7.", ".5"); the result is in
\* tenths, and ok = FALSE stands for ValueError.
ParseFloat(s) == FloatOfText(Strip(s))

\* int(round(x)) for x in tenths: Python rounds a half to the even neighbour.
RoundTenths(x) ==
    LET a == IF x < 0 THEN -x ELSE x
        q == a \div 10
        r == a % 10
        m == IF r < 5 THEN q ELSE IF r > 5 THEN q + 1 ELSE (IF q % 2 = 0 THEN q ELSE q + 1)
    IN  IF x < 0 THEN -m ELSE m

\* float(value) of a number or of a bool, in tenths.
NumTenths(v) ==
    CASE v.t = "int" -> 10 * v.n
      [] v.t = "float" -> v.n
      [] v.t = "bool" -> IF v.b THEN 10 ELSE 0

IsNumber(v) == v.t \in {"int", "float", "bool"}

IsStructured(v) == v.t \in {"dict", "list"}

(***************************************************************************)
(* sanitize_payload: the structural sanitizer run before every create.     *)
(***************************************************************************)
JsonNumberOfParts(dots, ip, fp, f) ==
    IF ~(/\ Cardinality(dots) <= 1
         /\ AllDigits(ip)
         /\ (Len(ip) > 1 => Head(ip) # "0")
         /\ (dots # {} => (AllDigits(fp) /\ Len(fp) = 1)))
      THEN [ok |-> FALSE, value |-> None]
    ELSE IF dots = {} THEN [ok |-> TRUE, value |-> PyInt(f.tenths \div 10)]
    ELSE [ok |-> TRUE, value |-> PyFloat(f.tenths)]

JsonNumberOfUnsigned(u, dots, f) ==
    JsonNumberOfParts(dots, IntegerPart(u, dots), FractionPart(u, dots), f)

JsonNumberOfStripped(t, u) == JsonNumberOfUnsigned(u, DotPositions(u), FloatOfText(t))

JsonNumberOfText(t) == JsonNumberOfStripped(t, Unsigned(t, {"-"}))

\* json.loads(s) for the strings of the model, which hold no bracket, brace, quote or
\* JSON literal: only a JSON number parses (no leading zero, no bare dot).
JsonLoads(s) == JsonNumberOfText(Strip(s))

\* str(v) for a string, None, a number or a bool.
PyStrChars(v) ==
    CASE v.t = "str" -> v.s
      [] v.t = "none" -> <<"N", "o", "n", "e">>
      [] v.t = "int" -> IntToChars(v.n)
      [] v.t = "bool" -> IF v.b THEN <<"T", "r", "u", "e">> ELSE <<"F", "a", "l", "s", "e">>
      [] v.t = "float" ->
            (IF v.n < 0 THEN <<"-">> ELSE <<>>)
            \o NatToChars((IF v.n < 0 THEN -v.n ELSE v.n) \div 10) \o <<".">>
            \o NatToChars((IF v.n < 0 THEN -v.n ELSE v.n) % 10)

\* s.split(','), then strip each token and keep the non-empty ones.
RECURSIVE SplitComma(_, _)
SplitComma(s, cur) ==
    IF s = <<>> THEN <<cur>>
    ELSE IF Head(s) = "," THEN <<cur>> \o SplitComma(Tail(s), <<>>)
    ELSE SplitComma(Tail(s), Append(cur, Head(s)))

RECURSIVE StripNonEmpty(_)
StripNonEmpty(tokens) ==
    IF tokens = <<>> THEN <<>>
    ELSE (IF Strip(Head(tokens)) # <<>> THEN <<Str(Strip(Head(tokens)))>> ELSE <<>>)
         \o StripNonEmpty(Tail(tokens))

\* float(value) as _parse_positive_amount takes it: of the stripped text of a string
\* (an empty one is no amount), or of a number.
AmountOf(v) ==
    IF v.t = "str" THEN ParseFloat(v.s)
    ELSE IF IsNumber(v) THEN [ok |-> TRUE, tenths |-> NumTenths(v)]
    ELSE [ok |-> FALSE, tenths |-> 0]

PositiveRoundedAmount(amount) ==
    IF ~amount.ok \/ amount.tenths <= 0 THEN None ELSE PyInt(RoundTenths(amount.tenths))

\* _parse_positive_amount: the rounded amount of a positive number or numeric string,
\* None for anything else.
ParsePositiveAmount(v) == PositiveRoundedAmount(AmountOf(v))

\* What _normalize_string_collection keeps of one item of a list.
NormalizeItem(item) ==
    IF item = None \/ item = Str(<<>>) \/ item = PyList(<<>>) THEN <<>>
    ELSE IF item.t = "str" THEN (IF Strip(item.s) # <<>> THEN <<Str(Strip(item.s))>> ELSE <<>>)
    ELSE <<Str(PyStrChars(item))>>

RECURSIVE NormalizeItems(_)
NormalizeItems(l) ==
    IF l = <<>> THEN <<>> ELSE NormalizeItem(Head(l)) \o NormalizeItems(Tail(l))

\* The string branch of _normalize_string_collection: parsed is json.loads(trimmed).
CollectionOfText(trimmed, parsed) ==
    IF trimmed = <<>> THEN PyList(<<>>)
    ELSE IF ~parsed.ok THEN PyList(StripNonEmpty(SplitComma(trimmed, <<>>)))
    ELSE PyList(<<Str(Strip(PyStrChars(parsed.value)))>>)

\* _normalize_string_collection: a list of strings, or None for a value that is
\* neither empty, a string nor a list.
NormalizeStringCollection(v) ==
    IF v = None \/ v = Str(<<>>) \/ v = PyList(<<>>) THEN PyList(<<>>)
    ELSE IF v.t = "str" THEN CollectionOfText(Strip(v.s), JsonLoads(v.s))
    ELSE IF v.t = "list" THEN PyList(NormalizeItems(v.l))
    ELSE None

\* A variant of the budget rule that normalizes a positive daily_budget and leaves
\* lifetime_budget beside it.
ExclusiveBudgetKeepBoth(values, daily_amount, lifetime_amount) ==
    IF daily_amount # None THEN Put(values, "daily_budget", daily_amount)
    ELSE IF lifetime_amount # None
      THEN Pop(Put(values, "lifetime_budget", lifetime_amount), "daily_budget")
    ELSE Pop(Pop(values, "daily_budget"), "lifetime_budget")

\* Lines 162-172: the budget kept, given the two parsed amounts.
ExclusiveBudget(values, daily_amount, lifetime_amount) ==
    IF daily_amount # None
      THEN Pop(Put(values, "daily_budget", daily_amount), "lifetime_budget")
    ELSE IF lifetime_amount # None
      THEN Pop(Put(values, "lifetime_budget", lifetime_amount), "daily_budget")
    ELSE Pop(Pop(values, "daily_budget"), "lifetime_budget")

\* Lines 157-172: daily_budget and lifetime_budget exclude each other.
BudgetRule(values) ==
    IF "daily_budget" \notin DOMAIN values /\ "lifetime_budget" \notin DOMAIN values
      THEN values
      ELSE ExclusiveBudget(values, ParsePositiveAmount(Get(values, "daily_budget")),
                           ParsePositiveAmount(Get(values, "lifetime_budget")))

\* A string stripped, any other value as it is.
StrippedValue(raw) == IF raw.t = "str" THEN Str(Strip(raw.s)) ELSE raw

\* Lines 178-185: the spend_cap kept, given its stripped value and its parsed amount.
SpendCapOf(values, spend_cap_value, normalized_cap) ==
    IF \/ spend_cap_value \in {None, Str(<<>>), Str(<<"0">>)}
       \/ (IsNumber(spend_cap_value) /\ NumTenths(spend_cap_value) = 0)
       \/ normalized_cap = None
      THEN Pop(values, "spend_cap")
      ELSE Put(values, "spend_cap", normalized_cap)

\* Lines 174-185: a spend_cap that is empty, zero or not a positive amount is removed.
SpendCapRule(values) ==
    IF "spend_cap" \notin DOMAIN values THEN values
    ELSE SpendCapOf(values, StrippedValue(values["spend_cap"]),
                    ParsePositiveAmount(StrippedValue(values["spend_cap"])))

\* Lines 190-195: the categories kept, given their normalized form.
WithCategories(values, depth, normalized_categories) ==
    IF normalized_categories = None
      THEN (IF depth = 0 THEN Put(values, "special_ad_categories", PyList(<<>>))
                         ELSE Pop(values, "special_ad_categories"))
      ELSE Put(values, "special_ad_categories", normalized_categories)

\* Lines 187-195: special_ad_categories becomes a list of strings; at depth 0 it is
\* always set.
CategoriesRule(values, depth) ==
    IF ~(depth = 0 \/ "special_ad_categories" \in DOMAIN values) THEN values
    ELSE WithCategories(values, depth,
                        NormalizeStringCollection(Get(values, "special_ad_categories")))

brand_safety_fields ==
    <<"brand_safety_content_filter_levels", "brand_safety_content_severity_levels",
      "excluded_brand_safety_content_types">>

\* Lines 203-209 for one brand-safety field, given its normalized form.
WithBrandSafetyField(values, field_name, normalized_levels) ==
    IF field_name \notin DOMAIN values THEN values
    ELSE IF normalized_levels = None THEN Pop(values, field_name)
    ELSE Put(values, field_name, normalized_levels)

\* Lines 197-209: each brand-safety field present becomes a list of strings or is removed.
RECURSIVE BrandSafetyRule(_, _)
BrandSafetyRule(values, i) ==
    IF i > Len(brand_safety_fields) THEN values
    ELSE BrandSafetyRule(
           WithBrandSafetyField(values, brand_safety_fields[i],
                                NormalizeStringCollection(Get(values, brand_safety_fields[i]))),
           i + 1)

numeric_exclusions ==
    {"id", "account_id", "campaign_id", "adset_id", "creative_id", "parent_id",
     "existing_creative_id"}

\* key.endswith('_id') or key.endswith('_ids'), for the field names of the model.
KeyEndsWithId(key) ==
    key \in {"account_id", "campaign_id", "adset_id", "creative_id", "parent_id",
             "existing_creative_id", "video_id", "instagram_actor_id", "page_id",
             "effective_object_story_id", "retailer_item_ids"}

\* A variant of IsIdentifierKey that knows the listed keys only.
IsListedIdentifierKey(key) == key \in numeric_exclusions

\* Line 254: the keys whose string value is never coerced to a number.
IsIdentifierKey(key) == key \in numeric_exclusions \/ KeyEndsWithId(key)

\* Lines 256-264: the number of a stripped text, or the value itself.
CoerceText(value, stripped, parsed) ==
    IF AllDigits(stripped) THEN PyInt(DigitsValue(stripped))
    ELSE IF parsed.ok THEN PyFloat(parsed.tenths)
    ELSE value

\* Lines 248-264, for one value: a numeric string becomes an int or a float.
CoerceNumeric(key, value) ==
    IF value.t # "str" THEN value
    ELSE IF Strip(value.s) = <<>> THEN value
    ELSE IF IsIdentifierKey(key) THEN value
    ELSE CoerceText(value, Strip(value.s), ParseFloat(value.s))

NumericCoercionRule(values) == [key \in DOMAIN values |-> CoerceNumeric(key, values[key])]

(***************************************************************************)
(* Datetimes.  An instant is a number of tenths of a second since the      *)
(* epoch.  The datetime texts of the model are written T<seconds><zone>:   *)
(* the letter T, the whole seconds in decimal, and a zone that is "+" (for *)
(* the offset +00:00), "Z", or absent (a naive time, taken as UTC).  Any   *)
(* other text is no datetime.                                              *)
(***************************************************************************)
NoDatetime == [some |-> FALSE, at |-> 0]

\* The digits of a datetime text without its leading T and its zone.
SecondsPart(stripped) ==
    IF stripped[Len(stripped)] \in {"Z", "+"} THEN SubSeq(stripped, 2, Len(stripped) - 1)
    ELSE SubSeq(stripped, 2, Len(stripped))

\* Lines 65-87: a stripped string is parsed, Z and a missing zone meaning UTC.
DatetimeOfText(stripped) ==
    IF stripped = <<>> THEN NoDatetime
    ELSE IF stripped[1] = "T" /\ AllDigits(SecondsPart(stripped))
      THEN [some |-> TRUE, at |-> 10 * DigitsValue(SecondsPart(stripped))]
    ELSE NoDatetime

\* _parse_datetime_value(value): a number is a timestamp, a string is parsed, anything
\* else is no datetime.
ParseDatetimeValue(value) ==
    CASE IsNumber(value) -> [some |-> TRUE, at |-> NumTenths(value)]
      [] value.t = "str" -> DatetimeOfText(Strip(value.s))
      [] OTHER -> NoDatetime

\* _isoformat_datetime(dt): the microseconds are dropped, the text is written with its
\* offset.
IsoformatDatetime(at) ==
    Str(<<"T">> \o IntToChars(at \div 10) \o <<"+">>)

\* Lines 213-218 without the comparison with now_utc: a start_time that parses is
\* written back as it is.
StartTimeOfAsGiven(values, parsed_start, now_utc) ==
    IF parsed_start.some
      THEN Put(values, "start_time", IsoformatDatetime(parsed_start.at))
      ELSE Pop(values, "start_time")

\* Lines 213-218: a start_time that parses is written back, moved up to now_utc when it
\* lies before it; one that does not parse is removed.
StartTimeOf(values, parsed_start, now_utc) ==
    IF parsed_start.some
      THEN Put(values, "start_time", IsoformatDatetime(Max(parsed_start.at, now_utc)))
      ELSE Pop(values, "start_time")

\* Lines 210-218: a missing, None or empty start_time is removed.
StartTimeRule(values, now_utc) ==
    IF Get(values, "start_time") \in {None, Str(<<>>)} THEN Pop(values, "start_time")
    ELSE StartTimeOf(values, ParseDatetimeValue(values["start_time"]), now_utc)

\* time_fields of _apply_dict_rules for an object type.
TimeFields(object_type) ==
    CASE object_type = "campaign" -> <<"stop_time">>
      [] object_type = "adset" -> <<"end_time", "stop_time">>
      [] OTHER -> <<"stop_time", "end_time">>

\* Lines 232-236: a stop or end time that parses is written back, another is removed.
TimeFieldOf(values, time_field, parsed_time) ==
    IF parsed_time.some THEN Put(values, time_field, IsoformatDatetime(parsed_time.at))
    ELSE Pop(values, time_field)

\* Lines 226-236 for one time field: a None or empty one is removed.
WithoutEmptyTime(values, time_field) ==
    IF time_field \notin DOMAIN values THEN values
    ELSE IF values[time_field] \in {None, Str(<<>>)} THEN Pop(values, time_field)
    ELSE TimeFieldOf(values, time_field, ParseDatetimeValue(values[time_field]))

RECURSIVE TimeFieldsRule(_, _, _)
TimeFieldsRule(values, object_type, i) ==
    IF i > Len(TimeFields(object_type)) THEN values
    ELSE TimeFieldsRule(WithoutEmptyTime(values, TimeFields(object_type)[i]),
                        object_type, i + 1)

\* _apply_dict_rules(values, depth): the rules in the order of the code.
ApplyDictRules(values, depth, object_type, now_utc) ==
    IF DOMAIN values = {} THEN values
    ELSE NumericCoercionRule(
           TimeFieldsRule(
             StartTimeRule(
               BrandSafetyRule(
                 CategoriesRule(SpendCapRule(BudgetRule(values)), depth),
                 1),
               now_utc),
             object_type, 1))

\* _sanitize(value, depth): dicts and lists are rebuilt recursively, the rules are
\* applied to every dict after its values.
RECURSIVE Sanitize(_, _, _, _)
Sanitize(value, depth, object_type, now_utc) ==
    IF value.t = "dict"
      THEN PyDict(ApplyDictRules([key \in DOMAIN value.d |->
                                    Sanitize(value.d[key], depth + 1, object_type, now_utc)],
                                 depth, object_type, now_utc))
    ELSE IF value.t = "list"
      THEN PyList([i \in DOMAIN value.l |->
                     Sanitize(value.l[i], depth + 1, object_type, now_utc)])
    ELSE value

\* sanitize_payload(data, object_type), run when the clock reads now_utc: a dict is
\* sanitized at depth 0, a list item by item, any other value is returned as it is.
sanitize_payload(data, object_type, now_utc) ==
    IF data.t = "list"
      THEN PyList([i \in DOMAIN data.l |-> Sanitize(data.l[i], 0, object_type, now_utc)])
      ELSE Sanitize(data, 0, object_type, now_utc)

(***************************************************************************)
(* Payload assembly of the cloner: normalize_input_value and the           *)
(* sanitize_*_payload functions.                                           *)
(***************************************************************************)
CAMPAIGN_POST_FIELDS ==
    <<"name", "objective", "status", "special_ad_categories", "buying_type", "bid_strategy",
      "start_time", "stop_time", "daily_budget", "lifetime_budget", "spend_cap",
      "promoted_object">>

ADSET_POST_FIELDS ==
    <<"name", "campaign_id", "status", "daily_budget", "lifetime_budget", "start_time",
      "end_time", "pacing_type", "bid_strategy", "bid_amount", "billing_event",
      "optimization_goal", "promoted_object", "targeting", "attribution_spec",
      "is_dynamic_creative", "financial_services_declaration_section">>

AD_POST_FIELDS == <<"name", "status", "adset_id", "creative">>

BUDGET_FIELDS == {"daily_budget", "lifetime_budget", "spend_cap", "bid_amount"}

BOOLEAN_FIELDS == {"is_dynamic_creative"}

JSON_FIELD_HINTS == {"promoted_object", "targeting", "attribution_spec", "special_ad_categories"}

TRUTHY_VALUES == {<<"t", "r", "u", "e">>, <<"1">>, <<"y", "e", "s">>, <<"y">>}

FALSY_VALUES == {<<"f", "a", "l", "s", "e">>, <<"0">>, <<"n", "o">>, <<"n">>}

\* str.lower() for the letters of the model.
Lower(s) ==
    [i \in DOMAIN s |->
        CASE s[i] = "A" -> "a" [] s[i] = "B" -> "b" [] s[i] = "Y" -> "y" [] s[i] = "N" -> "n"
          [] s[i] = "P" -> "p" [] s[i] = "U" -> "u" [] s[i] = "S" -> "s" [] s[i] = "E" -> "e"
          [] s[i] = "D" -> "d" [] s[i] = "T" -> "t" [] s[i] = "F" -> "f" [] s[i] = "X" -> "x"
          [] OTHER -> s[i]]

\* bool(v): Python's truth value.
Truthy(v) ==
    CASE v.t = "none" -> FALSE
      [] v.t = "bool" -> v.b
      [] v.t \in {"int", "float"} -> v.n # 0
      [] v.t = "str" -> v.s # <<>>
      [] v.t = "list" -> v.l # <<>>
      [] v.t = "dict" -> DOMAIN v.d # {}

\* type(original_value)(x) for a numeric original and x in tenths; int(x) truncates
\* toward zero.
AsTypeOf(original_value, x) ==
    IF original_value.t = "int"
      THEN PyInt(IF x < 0 THEN -((-x) \div 10) ELSE x \div 10)
      ELSE PyFloat(x)

\* Lines 106-115: the budget text of a trimmed string, parsed being float(trimmed).
BudgetText(trimmed, parsed) ==
    IF trimmed = <<>> THEN None
    ELSE IF parsed.ok THEN Str(IntToChars(RoundTenths(parsed.tenths)))
    ELSE Str(trimmed)

\* The budget branch of normalize_input_value (lines 99-115), for a value that is a
\* string, a number or a bool.
NormalizeBudget(value) ==
    CASE value = Str(<<>>) -> None
      [] IsNumber(value) -> Str(IntToChars(RoundTenths(NumTenths(value))))
      [] value.t = "str" /\ value # Str(<<>>) -> BudgetText(Strip(value.s), ParseFloat(value.s))

\* The boolean branch (lines 117-126).
NormalizeBoolean(value) ==
    IF value.t = "bool" THEN value
    ELSE IF value.t = "str" /\ Lower(Strip(value.s)) \in TRUTHY_VALUES THEN PyBool(TRUE)
    ELSE IF value.t = "str" /\ Lower(Strip(value.s)) \in FALSY_VALUES THEN PyBool(FALSE)
    ELSE PyBool(Truthy(value))

\* Lines 170-177: a boolean literal becomes a bool, any other string is trimmed.
ResidualText(trimmed) ==
    IF Lower(trimmed) \in TRUTHY_VALUES THEN PyBool(TRUE)
    ELSE IF Lower(trimmed) \in FALSY_VALUES THEN PyBool(FALSE)
    ELSE Str(trimmed)

\* The last branches (lines 164-177): a residual string is trimmed, and a boolean
\* literal becomes a bool.
NormalizeResidual(value) == IF value.t # "str" THEN value ELSE ResidualText(Strip(value.s))

\* Lines 131-139: a string for a structured original is parsed as JSON, and the
\* original is kept when it does not parse.
NormalizeStructured(value, original_value, parsed) ==
    IF value.t # "str" THEN value
    ELSE IF parsed.ok THEN parsed.value
    ELSE original_value

\* Lines 141-153: a string for a field with a JSON hint, parsed being json.loads(trimmed).
NormalizeJsonHint(field_name, value, trimmed, parsed) ==
    IF value.t # "str" THEN value
    ELSE IF trimmed = <<>>
      THEN (IF field_name = "special_ad_categories" THEN PyList(<<>>) ELSE None)
    ELSE IF parsed.ok THEN parsed.value
    ELSE IF field_name = "special_ad_categories"
      THEN PyList(StripNonEmpty(SplitComma(trimmed, <<>>)))
    ELSE value

\* Lines 155-162: a value for a numeric original takes the type of the original.
NormalizeNumeric(value, original_value, trimmed, parsed) ==
    IF IsNumber(value) THEN AsTypeOf(original_value, NumTenths(value))
    ELSE IF value.t = "str" /\ trimmed = <<>> THEN None
    ELSE IF value.t = "str" /\ parsed.ok THEN AsTypeOf(original_value, parsed.tenths)
    ELSE NormalizeResidual(value)

\* The text of a string, the empty text for any other value.
TextOf(value) == IF value.t = "str" THEN value.s ELSE <<>>

\* normalize_input_value(field_name, value, original_value).
normalize_input_value(field_name, value, original_value) ==
    IF value = None THEN None
    ELSE IF field_name \in BUDGET_FIELDS THEN NormalizeBudget(value)
    ELSE IF field_name \in BOOLEAN_FIELDS \/ original_value.t = "bool" THEN NormalizeBoolean(value)
    ELSE IF IsStructured(value) THEN value
    ELSE IF IsStructured(original_value)
      THEN NormalizeStructured(value, original_value, JsonLoads(TextOf(value)))
    ELSE IF field_name \in JSON_FIELD_HINTS
      THEN NormalizeJsonHint(field_name, value, Strip(TextOf(value)), JsonLoads(TextOf(value)))
    ELSE IF original_value.t \in {"int", "float"}
      THEN NormalizeNumeric(value, original_value, Strip(TextOf(value)),
                            ParseFloat(TextOf(value)))
    ELSE NormalizeResidual(value)

\* payload['status'] = payload.get('status') or 'PAUSED'.
DefaultStatus(payload) ==
    Put(payload, "status", IF Truthy(Get(payload, "status")) THEN payload["status"]
                           ELSE Str(<<"P", "A", "U", "S", "E", "D">>))

\* A variant of WithoutNone that keeps every entry.
WithNone(f) == f

\* The entries of a dict whose value is not None.
WithoutNone(f) == [k \in {x \in DOMAIN f : f[x] # None} |-> f[k]]

\* The field loop of the sanitize_*_payload functions: the fields of the schema that
\* are not skipped and whose normalized value is not None.
AssembleFields(schema, skipped, base, overrides) ==
    WithoutNone([field \in Range(schema) \ skipped |->
                   normalize_input_value(field,
                                         IF field \in DOMAIN overrides THEN overrides[field]
                                                                       ELSE Get(base, field),
                                         Get(base, field))])

\* A variant of sanitize_campaign_payload that keeps the budget fields whatever is_cbo is.
sanitize_campaign_payload_keep_budget(template, overrides, is_cbo) ==
    DefaultStatus(AssembleFields(CAMPAIGN_POST_FIELDS, {}, template, overrides))

\* sanitize_campaign_payload(template, overrides, is_cbo).
sanitize_campaign_payload(template, overrides, is_cbo) ==
    DefaultStatus(AssembleFields(CAMPAIGN_POST_FIELDS,
                                 IF is_cbo THEN {} ELSE {"daily_budget", "lifetime_budget"},
                                 template, overrides))

\* dict.setdefault(key, value).
PutIfMissing(payload, key, value) ==
    IF key \in DOMAIN payload THEN payload ELSE Put(payload, key, value)

\* A variant of sanitize_adset_payload that takes campaign_id like any other field,
\* from the overrides or the template, and the new campaign's id only when neither has it.
sanitize_adset_payload_keep_parent(template, overrides, new_campaign_id, is_cbo) ==
    DefaultStatus(PutIfMissing(AssembleFields(ADSET_POST_FIELDS,
                                              IF is_cbo THEN {"daily_budget", "lifetime_budget"}
                                                        ELSE {},
                                              template, overrides),
                               "campaign_id", new_campaign_id))

\* Lines 713-715: under campaign budget optimisation the ad set carries no budget.
WithoutBudgetsWhen(is_cbo, payload) ==
    IF is_cbo THEN Pop(Pop(payload, "daily_budget"), "lifetime_budget") ELSE payload

\* sanitize_adset_payload(template, overrides, new_campaign_id, is_cbo).
sanitize_adset_payload(template, overrides, new_campaign_id, is_cbo) ==
    WithoutBudgetsWhen(is_cbo,
        DefaultStatus(Put(AssembleFields(ADSET_POST_FIELDS,
                                         {"campaign_id"} \cup
                                         (IF is_cbo THEN {"daily_budget", "lifetime_budget"}
                                                    ELSE {}),
                                         template, overrides),
                          "campaign_id", new_campaign_id)))

\* sanitize_ad_payload(template, overrides, new_adset_id, creative_id).
sanitize_ad_payload(template, overrides, new_adset_id, creative_id) ==
    DefaultStatus(Put(Put(AssembleFields(AD_POST_FIELDS, {"creative", "adset_id"},
                                         template, overrides),
                          "adset_id", new_adset_id),
                      "creative", PyDict("creative_id" :> creative_id)))

(***************************************************************************)
(* create_ad_object and create_campaign_from_template.                     *)
(***************************************************************************)
\* update_object_story_spec works on a deep copy of the story spec and replaces a
\* section (link_data, video_data, photo_data, template_data) that is a dict by a copy
\* with some entries set or a key removed; a section that is absent or no dict stays.
SectionIsDict(spec, section) == section \in DOMAIN spec /\ spec[section].t = "dict"

SectionWith(spec, section, entries) ==
    IF SectionIsDict(spec, section)
      THEN Put(spec, section, PyDict(entries @@ spec[section].d)) ELSE spec

SectionWithout(spec, section, key) ==
    IF SectionIsDict(spec, section)
      THEN Put(spec, section, PyDict(Pop(spec[section].d, key))) ELSE spec

\* A variant of the asset substitution that leaves the other asset's key in link_data.
AssetInLinkDataBesideOther(spec, key, value) ==
    IF key \in {Str(<<"i", "m", "a", "g", "e", "_", "h", "a", "s", "h">>),
                Str(<<"v", "i", "d", "e", "o", "_", "i", "d">>)}
      THEN SectionWith(spec, "link_data",
                       (IF key = Str(<<"v", "i", "d", "e", "o", "_", "i", "d">>)
                          THEN "video_id" ELSE "image_hash") :> value)
      ELSE spec

\* Lines 571-577: the asset in link_data, the other asset's key removed.
AssetInLinkData(spec, key, value) ==
    CASE key = Str(<<"i", "m", "a", "g", "e", "_", "h", "a", "s", "h">>) ->
           SectionWithout(SectionWith(spec, "link_data", "image_hash" :> value),
                          "link_data", "video_id")
      [] key = Str(<<"v", "i", "d", "e", "o", "_", "i", "d">>) ->
           SectionWithout(SectionWith(spec, "link_data", "video_id" :> value),
                          "link_data", "image_hash")
      [] OTHER -> spec

\* Lines 579-589: the asset in video_data (a video) and in photo_data (an image).
AssetInMediaData(spec, key, value) ==
    CASE key = Str(<<"v", "i", "d", "e", "o", "_", "i", "d">>) ->
           SectionWith(spec, "video_data", "video_id" :> value)
      [] key = Str(<<"i", "m", "a", "g", "e", "_", "h", "a", "s", "h">>) ->
           SectionWith(spec, "photo_data", "image_hash" :> value)
      [] OTHER -> spec

\* Lines 564-589: the selected asset, when it has a key and a value.
WithAsset(spec, asset_info) ==
    IF /\ asset_info.t = "dict" /\ Truthy(asset_info)
       /\ Truthy(Get(asset_info.d, "key")) /\ Truthy(Get(asset_info.d, "value"))
      THEN AssetInMediaData(AssetInLinkData(spec, asset_info.d["key"], asset_info.d["value"]),
                            asset_info.d["key"], asset_info.d["value"])
      ELSE spec

\* Lines 591-597: the message in link_data, video_data and photo_data.
WithMessage(spec, message) ==
    IF Truthy(message)
      THEN SectionWith(SectionWith(SectionWith(spec, "link_data", "message" :> message),
                                   "video_data", "message" :> message),
                       "photo_data", "message" :> message)
      ELSE spec

\* Lines 599-610: the headline in link_data (headline and name) and video_data (title).
WithHeadline(spec, headline) ==
    IF Truthy(headline)
      THEN SectionWith(SectionWith(spec, "link_data",
                                   ("headline" :> headline) @@ ("name" :> headline)),
                       "video_data", "title" :> headline)
      ELSE spec

\* The call_to_action of a section with the link in its value: a value that is a dict
\* gets link and link_url, any other value is replaced by {'link': link}.
CallToActionWith(call_to_action, link) ==
    IF "value" \in DOMAIN call_to_action /\ call_to_action["value"].t = "dict"
      THEN Put(call_to_action, "value",
               PyDict(("link" :> link) @@ ("link_url" :> link) @@ call_to_action["value"].d))
      ELSE Put(call_to_action, "value", PyDict("link" :> link))

\* The entries a section gets for its call_to_action, none when it has no such dict.
CallToActionEntries(spec, section, link) ==
    IF /\ SectionIsDict(spec, section)
       /\ "call_to_action" \in DOMAIN spec[section].d
       /\ spec[section].d["call_to_action"].t = "dict"
      THEN "call_to_action" :> PyDict(CallToActionWith(spec[section].d["call_to_action"].d, link))
      ELSE <<>>

\* Lines 612-643: the link in link_data (link, link_url) and in the call_to_action of
\* link_data, video_data and photo_data.
WithLink(spec, link) ==
    IF Truthy(link)
      THEN SectionWith(
             SectionWith(
               SectionWith(spec, "link_data",
                           ("link" :> link) @@ ("link_url" :> link)
                           @@ CallToActionEntries(spec, "link_data", link)),
               "video_data", CallToActionEntries(spec, "video_data", link)),
             "photo_data", CallToActionEntries(spec, "photo_data", link))
      ELSE spec

\* Lines 645-650: the items stripped, the empty ones and the repeated ones left out.
RECURSIVE CleanedRetailerIds(_, _)
CleanedRetailerIds(items, cleaned) ==
    IF items = <<>> THEN cleaned
    ELSE CleanedRetailerIds(Tail(items),
                            IF Strip(Head(items).s) # <<>>
                               /\ Str(Strip(Head(items).s)) \notin Range(cleaned)
                              THEN Append(cleaned, Str(Strip(Head(items).s)))
                              ELSE cleaned)

\* Lines 651-665: the cleaned list in link_data, video_data and template_data and in
\* the story spec itself, or removed from all of them when it is empty.
WithRetailerIds(spec, cleaned) ==
    IF cleaned # <<>>
      THEN Put(SectionWith(SectionWith(SectionWith(spec, "link_data",
                                                   "retailer_item_ids" :> PyList(cleaned)),
                                       "video_data", "retailer_item_ids" :> PyList(cleaned)),
                           "template_data", "retailer_item_ids" :> PyList(cleaned)),
               "retailer_item_ids", PyList(cleaned))
      ELSE Pop(SectionWithout(SectionWithout(SectionWithout(spec, "link_data",
                                                            "retailer_item_ids"),
                                             "video_data", "retailer_item_ids"),
                              "template_data", "retailer_item_ids"),
               "retailer_item_ids")

\* update_object_story_spec(story_spec, asset_info, message, headline, link,
\* retailer_item_ids).
update_object_story_spec(story_spec, asset_info, message, headline, link, retailer_item_ids) ==
    PyDict(WithRetailerIds(
             WithLink(WithHeadline(WithMessage(WithAsset(IF story_spec.t = "dict"
                                                           THEN story_spec.d ELSE <<>>,
                                                         asset_info),
                                               message),
                                   headline),
                      link),
             CleanedRetailerIds(retailer_item_ids, <<>>)))

\* creative_inputs.get(key) or ''.
InputOrEmpty(creative_inputs, key) ==
    IF Truthy(Get(creative_inputs, key)) THEN creative_inputs[key] ELSE Str(<<>>)

\* asset_map.get(asset_name) if asset_name else None.
AssetInfoOf(creative_inputs, asset_map) ==
    IF Truthy(Get(creative_inputs, "asset_name"))
       /\ creative_inputs["asset_name"] \in DOMAIN asset_map
      THEN asset_map[creative_inputs["asset_name"]] ELSE None

\* Line 736: the comma-separated retailer ids, stripped, the empty ones left out.
RetailerIdsList(creative_inputs) ==
    StripNonEmpty(SplitComma(InputOrEmpty(creative_inputs, "retailer_item_ids").s, <<>>))

\* A key of the payload set to a value that is truthy, removed otherwise.
PutOrPop(payload, key, value) ==
    IF Truthy(value) THEN Put(payload, key, value) ELSE Pop(payload, key)

\* build_creative_payload(creative_template, creative_inputs, asset_map): None without
\* a creative template; else the template without its read-only fields, with the story
\* spec updated, body, title and retailer_item_ids set from the inputs or removed, and
\* the name from the inputs when there is one.
build_creative_payload(creative_template, creative_inputs, asset_map) ==
    IF creative_template.t # "dict" THEN None
    ELSE PyDict(
           (IF Truthy(Get(creative_inputs, "name"))
              THEN ("name" :> creative_inputs["name"]) ELSE <<>>)
           @@ PutOrPop(
                PutOrPop(
                  PutOrPop(
                    Put([k \in DOMAIN creative_template.d \
                                 {"id", "status", "thumbnail_url", "image_url",
                                  "effective_object_story_id", "asset_feed_spec"} |->
                            creative_template.d[k]],
                        "object_story_spec",
                        update_object_story_spec(Get(creative_template.d, "object_story_spec"),
                                                 AssetInfoOf(creative_inputs, asset_map),
                                                 InputOrEmpty(creative_inputs, "message"),
                                                 InputOrEmpty(creative_inputs, "title"),
                                                 InputOrEmpty(creative_inputs, "link"),
                                                 RetailerIdsList(creative_inputs))),
                    "body", InputOrEmpty(creative_inputs, "message")),
                  "title", InputOrEmpty(creative_inputs, "title")),
                "retailer_item_ids", PyList(RetailerIdsList(creative_inputs))))

\* object_type of create_ad_object: the label up to its first colon, lower-cased.
ObjectTypeOf(kind) ==
    CASE kind = "campaign" -> "campaign"
      [] kind = "adset" -> "ad set"
      [] kind = "creative" -> "creative (ad)"
      [] kind = "ad" -> "ad"

\* What the creation function of a create call does: it returns a response with an
\* identifier, a response without one, or None, or it raises FacebookRequestError
\* (with a rate-limit code, or with another code) or another exception.
CreationOutcomes == {"id", "no_id", "none", "rate_limited", "fb_error", "exception"}

\* create_ad_object(creation_function, payload, object_type_for_log): the payload is
\* sanitized again in place (the creation function sends that dict), the call is made
\* once; FacebookRequestError and a None result give None, any other exception leaves
\* the function.  now_utc is what the clock reads when the payload is sanitized.
create_ad_object(payload, kind, outcome, new_id, now_utc) ==
    [sent |-> sanitize_payload(payload, ObjectTypeOf(kind), now_utc),
     raised |-> outcome = "exception",
     result |-> CASE outcome = "id" -> PyDict("id" :> new_id)
                  [] outcome = "no_id" -> PyDict("success" :> PyBool(TRUE))
                  [] outcome \in {"none", "rate_limited", "fb_error", "exception"} -> None]

\* result.get('id'): the identifier of a response, None when it has none.
ResponseId(result) == IF result.t = "dict" THEN Get(result.d, "id") ELSE None

\* The identifier the platform gives to the k-th object it creates.
NewId(k) == Str(IntToChars(9000 + k))

CloneIdle ==
    [pc |-> "idle", is_cbo |-> FALSE, template |-> <<>>, user_inputs |-> <<>>,
     ai |-> 0, di |-> 0, new_campaign_id |-> None, new_adset_id |-> None,
     new_creative_id |-> None, created_adsets |-> <<>>, created_ads |-> <<>>,
     calls |-> <<>>, result |-> [t |-> "unset"], error |-> "none"]

\* The state on entry of create_campaign_from_template.
CloneStart(template_data, user_inputs, is_cbo) ==
    [CloneIdle EXCEPT !.pc = "start", !.template = template_data,
                      !.user_inputs = user_inputs, !.is_cbo = is_cbo]

\* One create call as the run records it.
CallRecord(c, kind, done, outcome) ==
    [kind |-> kind, ai |-> c.ai, di |-> c.di, payload |-> done.sent, outcome |-> outcome,
     id |-> ResponseId(done.result)]

\* A variant of the abort that records the call and tries the same create again.
RetryAfter(c, call, done) == [c EXCEPT !.calls = Append(@, call)]

\* A variant of the abort that makes the create call again after a rate-limit error.
AbortUnlessRateLimited(c, call, done) ==
    CASE call.outcome = "rate_limited" -> [c EXCEPT !.calls = Append(@, call)]
      [] done.raised -> [c EXCEPT !.calls = Append(@, call), !.pc = "raised", !.error = "remote"]
      [] OTHER -> [c EXCEPT !.calls = Append(@, call), !.pc = "returned", !.result = None]

\* What follows a create call that gave no identifier: the exception leaves the run,
\* or the run returns None.
AbortAfter(c, call, done) ==
    IF done.raised
      THEN [c EXCEPT !.calls = Append(@, call), !.pc = "raised", !.error = "remote"]
      ELSE [c EXCEPT !.calls = Append(@, call), !.pc = "returned", !.result = None]

\* Lines 817-823: the new campaign's identifier is kept.
CampaignCreated(c, done) ==
    [c EXCEPT !.new_campaign_id = ResponseId(done.result), !.pc = "adset_loop", !.ai = 1]

\* A variant of lines 853-860 that lists the new ad set's identifier before the ones
\* listed so far.
AdSetCreatedListedFirst(c, done) ==
    [c EXCEPT !.new_adset_id = ResponseId(done.result),
              !.created_adsets = <<Str(PyStrChars(ResponseId(done.result)))>> \o @,
              !.pc = "ad_loop", !.di = 1]

\* Lines 853-860: the new ad set's identifier is kept and listed.
AdSetCreated(c, done) ==
    [c EXCEPT !.new_adset_id = ResponseId(done.result),
              !.created_adsets = Append(@, Str(PyStrChars(ResponseId(done.result)))),
              !.pc = "ad_loop", !.di = 1]

\* Lines 892-898: the new creative's identifier is kept.
CreativeCreated(c, done) ==
    [c EXCEPT !.new_creative_id = ResponseId(done.result), !.pc = "ad_create"]

\* Lines 910-917: the new ad's identifier is listed.
AdCreated(c, done) ==
    [c EXCEPT !.created_ads = Append(@, Str(PyStrChars(ResponseId(done.result)))),
              !.pc = "ad_loop", !.di = @ + 1]

\* The state after a create call of a kind gave an identifier.
Created(c, kind, done) ==
    CASE kind = "campaign" -> CampaignCreated(c, done)
      [] kind = "adset" -> AdSetCreated(c, done)
      [] kind = "creative" -> CreativeCreated(c, done)
      [] kind = "ad" -> AdCreated(c, done)

\* A variant of the test after a create call that goes on whatever the call gave.
AfterCreateUnchecked(c, kind, outcome, done) ==
    [Created(c, kind, done) EXCEPT !.calls = Append(@, CallRecord(c, kind, done, outcome))]

\* The test after every create call ("if not result: return None", "if not new_id:
\* return None"): the run aborts, or goes on with the identifier.
AfterCreate(c, kind, outcome, done) ==
    IF ~Truthy(done.result) \/ ~Truthy(ResponseId(done.result))
      THEN AbortAfter(c, CallRecord(c, kind, done, outcome), done)
      ELSE [Created(c, kind, done) EXCEPT !.calls = Append(@, CallRecord(c, kind, done, outcome))]

HasBudget(params) == \E key \in {"daily_budget", "lifetime_budget"} : key \in DOMAIN params.d

\* What the clock reads during a cloning run: it moves on with every create call, and
\* between the assembly of a payload (step 0) and its create call (step 1).
ClockAt(c, step) == 2 * Len(c.calls) + step

\* campaign_params of the run.
CampaignParams(c) ==
    sanitize_payload(PyDict(sanitize_campaign_payload(c.template.campaign,
                                                      c.user_inputs.campaign, c.is_cbo)),
                     "campaign", ClockAt(c, 0))

\* A variant of the CBO check that never fires.
CampaignBudgetMissingNever(c) == FALSE

\* Line 805: CBO is requested and the campaign payload holds no budget field.
CampaignBudgetMissing(c) == c.is_cbo /\ ~HasBudget(CampaignParams(c))

\* Lines 805-806: raise ValueError before any call.
CloneCampaignAssemblyError ==
    /\ clone.pc = "start"
    /\ CampaignBudgetMissing(clone)
    /\ clone' = [clone EXCEPT !.pc = "raised", !.error = "assembly"]
    /\ UNCHANGED <<mar, batch, san, mem, up>>

\* Lines 808-823: the campaign create and what is done with its result.
CloneCreateCampaign ==
    /\ clone.pc = "start"
    /\ ~CampaignBudgetMissing(clone)
    /\ \E outcome \in CreationOutcomes :
         clone' = AfterCreate(clone, "campaign", outcome,
                              create_ad_object(CampaignParams(clone), "campaign", outcome,
                                               NewId(Len(clone.calls) + 1), ClockAt(clone, 1)))
    /\ UNCHANGED <<mar, batch, san, mem, up>>

\* The ad set under work and its overrides (adset_inputs_map.get(adset_key, {})).
CurAdSet(c) == c.template.ad_sets[c.ai]

CurAdSetInputs(c) ==
    IF c.ai \in DOMAIN c.user_inputs.ad_sets THEN c.user_inputs.ad_sets[c.ai]
    ELSE [fields |-> <<>>, ads |-> <<>>]

\* adset_params of the ad set under work.
AdSetParams(c) ==
    sanitize_payload(PyDict(sanitize_adset_payload(CurAdSet(c).fields, CurAdSetInputs(c).fields,
                                                   Str(PyStrChars(c.new_campaign_id)), c.is_cbo)),
                     "adset", ClockAt(c, 0))

\* A variant of the ad-set budget check that never fires.
AdSetBudgetMissingNever(c) == FALSE

\* Line 842: no CBO and the ad-set payload holds no budget field.
AdSetBudgetMissing(c) == ~c.is_cbo /\ ~HasBudget(AdSetParams(c))

\* Lines 842-843: raise ValueError before the ad set's create call.
CloneAdSetAssemblyError ==
    /\ clone.pc = "adset_loop" /\ clone.ai <= Len(clone.template.ad_sets)
    /\ AdSetBudgetMissing(clone)
    /\ clone' = [clone EXCEPT !.pc = "raised", !.error = "assembly"]
    /\ UNCHANGED <<mar, batch, san, mem, up>>

\* Lines 845-860: the ad set's create and what is done with its result.
CloneCreateAdSet ==
    /\ clone.pc = "adset_loop" /\ clone.ai <= Len(clone.template.ad_sets)
    /\ ~AdSetBudgetMissing(clone)
    /\ \E outcome \in CreationOutcomes :
         clone' = AfterCreate(clone, "adset", outcome,
                              create_ad_object(AdSetParams(clone), "adset", outcome,
                                               NewId(Len(clone.calls) + 1), ClockAt(clone, 1)))
    /\ UNCHANGED <<mar, batch, san, mem, up>>

\* The ad under work and its overrides (ad_inputs_map.get(adset_specific_key, {})).
CurAd(c) == CurAdSet(c).ads[c.di]

CurAdInputs(c) ==
    IF c.di \in DOMAIN CurAdSetInputs(c).ads THEN CurAdSetInputs(c).ads[c.di]
    ELSE [fields |-> <<>>]

\* A variant of creative_payload that gives an empty creative to an ad without a
\* creative template.
CreativePayloadOrEmpty(c) ==
    IF CurAd(c).creative_details.t = "dict" THEN build_creative_payload(CurAd(c).creative_details, <<>>, <<>>)
    ELSE PyDict("object_story_spec" :> PyDict(<<>>))

\* creative_payload of the ad under work, before it is sanitized.
CreativePayload(c) == build_creative_payload(CurAd(c).creative_details, <<>>, <<>>)

\* Lines 877-880: no creative payload, the ad is skipped.
CloneSkipAd ==
    /\ clone.pc = "ad_loop" /\ clone.di <= Len(CurAdSet(clone).ads)
    /\ ~Truthy(CreativePayload(clone))
    /\ clone' = [clone EXCEPT !.di = @ + 1]
    /\ UNCHANGED <<mar, batch, san, mem, up>>

\* Lines 882-898: the creative's create and what is done with its result.
CloneCreateCreative ==
    /\ clone.pc = "ad_loop" /\ clone.di <= Len(CurAdSet(clone).ads)
    /\ Truthy(CreativePayload(clone))
    /\ \E outcome \in CreationOutcomes :
         clone' = AfterCreate(clone, "creative", outcome,
                              create_ad_object(sanitize_payload(CreativePayload(clone), "creative",
                                                                ClockAt(clone, 0)),
                                               "creative", outcome, NewId(Len(clone.calls) + 1),
                                               ClockAt(clone, 1)))
    /\ UNCHANGED <<mar, batch, san, mem, up>>

\* ad_payload of the ad under work.
AdParams(c) ==
    sanitize_payload(PyDict(sanitize_ad_payload(CurAd(c).fields, CurAdInputs(c).fields,
                                                Str(PyStrChars(c.new_adset_id)),
                                                Str(PyStrChars(c.new_creative_id)))),
                     "ad", ClockAt(c, 0))

\* Lines 900-917: the ad's create and what is done with its result.
CloneCreateAd ==
    /\ clone.pc = "ad_create"
    /\ \E outcome \in CreationOutcomes :
         clone' = AfterCreate(clone, "ad", outcome,
                              create_ad_object(AdParams(clone), "ad", outcome,
                                               NewId(Len(clone.calls) + 1), ClockAt(clone, 1)))
    /\ UNCHANGED <<mar, batch, san, mem, up>>

\* The loop over the ads of an ad set ends: the next ad set.
CloneNextAdSet ==
    /\ clone.pc = "ad_loop" /\ clone.di > Len(CurAdSet(clone).ads)
    /\ clone' = [clone EXCEPT !.pc = "adset_loop", !.ai = @ + 1, !.di = 0]
    /\ UNCHANGED <<mar, batch, san, mem, up>>

\* The Creation Result of lines 919-923.
CreationResult(c) ==
    [campaign_id |-> Str(PyStrChars(c.new_campaign_id)),
     adset_ids |-> c.created_adsets, ad_ids |-> c.created_ads]

\* The loop over the ad sets ends: return the Creation Result.
CloneFinish ==
    /\ clone.pc = "adset_loop" /\ clone.ai > Len(clone.template.ad_sets)
    /\ clone' = [clone EXCEPT !.pc = "returned", !.result = CreationResult(clone)]
    /\ UNCHANGED <<mar, batch, san, mem, up>>

(***************************************************************************)
(* make_api_request: one remote call with bounded retry on rate limiting.  *)
(***************************************************************************)
RATE_LIMIT_ERROR_CODES == {4, 17, 32, 613, 80004}

ACCOUNT_RATE_LIMIT_SUBCODES == {2446079, 2446094, 2446095}

ACCOUNT_RATE_LIMIT_BACKOFF_SECONDS == 600

\* The errors a call may raise: FacebookRequestError with a code and a
\* subcode (0 stands for an absent code or subcode, which is in neither set),
\* or any other exception.
FbErrors == [kind : {"fb"}, code : {0, 4, 100}, subcode : {0, 2446079}]

\* is_rate_limited of make_api_request.
IsRateLimited(err) ==
    (err.code \in RATE_LIMIT_ERROR_CODES) \/ (err.subcode \in ACCOUNT_RATE_LIMIT_SUBCODES)

\* An off-by-one variant of ShouldRetry that gives up one attempt early.
ShouldRetryEarly(err, attempt, max_retries) ==
    IsRateLimited(err) /\ attempt < max_retries - 2

\* A variant of ShouldRetry that tries again after any platform error.
ShouldRetryAnyError(err, attempt, max_retries) == attempt < max_retries - 1

\* should_retry of make_api_request.
ShouldRetry(err, attempt, max_retries) ==
    IsRateLimited(err) /\ attempt < max_retries - 1

\* A variant of BackoffTime without the floor for account-level throttling.
BackoffTimeUnfloored(err, attempt, initial_backoff) == initial_backoff * Pow2(attempt)

\* backoff_time of make_api_request, in seconds, before the jitter is added.
BackoffTime(err, attempt, initial_backoff) ==
    LET base == initial_backoff * Pow2(attempt)
    IN  IF err.subcode \in ACCOUNT_RATE_LIMIT_SUBCODES
          THEN Max(base, ACCOUNT_RATE_LIMIT_BACKOFF_SECONDS)
          ELSE base

\* random.uniform(0, 0.5), in tenths of a second: the two ends and a middle value.
JitterTenths == {0, 2, 5}

MarIdle ==
    [pc |-> "idle", max_retries |-> 0, initial_backoff |-> 0, attempt |-> 0,
     calls |-> 0, outcomes |-> <<>>, sleeps |-> <<>>, result |-> "unset"]

\* The state on entry of make_api_request(api_call_function, max_retries, initial_backoff).
MarStart(max_retries, initial_backoff) ==
    [MarIdle EXCEPT !.pc = "loop", !.max_retries = max_retries,
                    !.initial_backoff = initial_backoff]

\* except FacebookRequestError: give up with None, or sleep and try again.
MarOnFbError(m, err, jitter) ==
    LET kind == IF IsRateLimited(err) THEN "rate_limited" ELSE "fatal"
    IN  IF ~ShouldRetry(err, m.attempt, m.max_retries)
          THEN [m EXCEPT !.pc = "returned", !.result = "None", !.calls = @ + 1,
                         !.outcomes = Append(@, kind)]
          ELSE [m EXCEPT !.calls = @ + 1, !.outcomes = Append(@, kind),
                         !.sleeps = Append(@, [attempt |-> m.attempt, err |-> err,
                                               tenths |-> 10 * BackoffTime(err, m.attempt, m.initial_backoff) + jitter]),
                         !.attempt = @ + 1]

\* return api_call_function(): the call returned a value.
MarCallValue ==
    /\ mar.pc = "loop" /\ mar.attempt < mar.max_retries
    /\ mar' = [mar EXCEPT !.pc = "returned", !.result = "value", !.calls = @ + 1,
                          !.outcomes = Append(@, "value")]
    /\ UNCHANGED <<batch, clone, san, mem, up>>

\* except FacebookRequestError as error.
MarCallFbError ==
    /\ mar.pc = "loop" /\ mar.attempt < mar.max_retries
    /\ \E err \in FbErrors, jitter \in JitterTenths : mar' = MarOnFbError(mar, err, jitter)
    /\ UNCHANGED <<batch, clone, san, mem, up>>

\* except Exception: the call raised something that is no FacebookRequestError.
MarCallException ==
    /\ mar.pc = "loop" /\ mar.attempt < mar.max_retries
    /\ mar' = [mar EXCEPT !.pc = "returned", !.result = "None", !.calls = @ + 1,
                          !.outcomes = Append(@, "exception")]
    /\ UNCHANGED <<batch, clone, san, mem, up>>

\* The loop ends without a return inside it: the final return None.
MarExhausted ==
    /\ mar.pc = "loop" /\ ~(mar.attempt < mar.max_retries)
    /\ mar' = [mar EXCEPT !.pc = "returned", !.result = "None"]
    /\ UNCHANGED <<batch, clone, san, mem, up>>

(***************************************************************************)
(* execute_batch_requests: chunks, batch rounds, sequential fallback.      *)
(***************************************************************************)
\* A variant of chunk_list that puts all the items into one chunk.
chunk_list_whole(items, chunk_size) == IF Len(items) = 0 THEN <<>> ELSE <<items>>

\* chunk_list(items, chunk_size): consecutive slices of chunk_size items.
RECURSIVE chunk_list(_, _)
chunk_list(items, chunk_size) ==
    IF Len(items) = 0 THEN <<>>
    ELSE <<SubSeq(items, 1, Min(chunk_size, Len(items)))>>
         \o chunk_list(SubSeq(items, Min(chunk_size, Len(items)) + 1, Len(items)), chunk_size)

\* What the platform answers for one request of a batch: a success response, or a
\* failure response whose body is a dict with a code, a subcode and message texts,
\* or is no dict at all (0 stands for an absent code or subcode).
FailureResponses ==
    { [is_dict |-> TRUE,  code |-> 4,   subcode |-> 0,       msg |-> "plain"],
      [is_dict |-> TRUE,  code |-> 100, subcode |-> 17,      msg |-> "plain"],
      [is_dict |-> TRUE,  code |-> 100, subcode |-> 0,       msg |-> "request limit reached"],
      [is_dict |-> TRUE,  code |-> 100, subcode |-> 0,       msg |-> "too many calls"],
      [is_dict |-> TRUE,  code |-> 100, subcode |-> 0,       msg |-> "plain"],
      [is_dict |-> TRUE,  code |-> 0,   subcode |-> 2446079, msg |-> ""],
      [is_dict |-> FALSE, code |-> 4,   subcode |-> 0,       msg |-> "request limit reached"] }

\* 'limit' in lowered or 'too many' in lowered, for the message texts of the model.
MessageIndicatesRateLimit(msg) == msg \in {"request limit reached", "too many calls"}

\* A variant of should_retry that schedules a retry after every failure.
BatchShouldRetryAnyFailure(resp) == TRUE

\* should_retry of failure_callback.
BatchShouldRetry(resp) ==
    /\ resp.is_dict
    /\ \/ resp.code \in RATE_LIMIT_ERROR_CODES
       \/ resp.subcode \in RATE_LIMIT_ERROR_CODES
       \/ (resp.msg # "" /\ MessageIndicatesRateLimit(resp.msg))

\* The callbacks' outcomes for one request of an executed batch:
\*   "ok"            success_callback ran and response_handler returned,
\*   "handler_error" success_callback ran and response_handler raised (caught, printed),
\*   "requeued"      failure_callback ran and scheduled the retry,
\*   "failed"        failure_callback ran and did not.
\* A request of a batch whose call failed as a whole gets no callback at all; its
\* history records "no_callback" for that round.
BatchAnswers == [kind : {"success"}, handler_raises : BOOLEAN]
                \cup [kind : {"failure"}, resp : FailureResponses]

\* What the error body given to failure_callback says (lines 227-258): a rate-limit
\* code as code or as error_subcode, or a message with 'limit' or 'too many' in it
\* ("rate_limit"), or none of these ("other"); "none" for a success.
ErrorBodyClass(ans) ==
    IF ans.kind = "success" THEN "none"
    ELSE IF /\ ans.resp.is_dict
            /\ \/ {ans.resp.code, ans.resp.subcode} \cap RATE_LIMIT_ERROR_CODES # {}
               \/ ans.resp.msg \in {"request limit reached", "too many calls"}
      THEN "rate_limit" ELSE "other"

CallbackOutcome(ans) ==
    IF ans.kind = "success"
      THEN (IF ans.handler_raises THEN "handler_error" ELSE "ok")
      ELSE (IF BatchShouldRetry(ans.resp) THEN "requeued" ELSE "failed")

\* The entries of seq s (in order) whose answer has the given callback outcome.
RECURSIVE EntriesWith(_, _, _)
EntriesWith(s, answers, outcome) ==
    IF s = <<>> THEN <<>>
    ELSE (IF CallbackOutcome(answers[Head(s)]) = outcome THEN <<Head(s)>> ELSE <<>>)
         \o EntriesWith(Tail(s), answers, outcome)

BatchIdle ==
    [pc |-> "idle", R |-> 0, chunk_size |-> 0, max_chunk_retries |-> 0,
     chunks |-> <<>>, ci |-> 0, remaining |-> <<>>, attempt |-> 0,
     rounds |-> <<>>, hist |-> <<>>, last_error |-> <<>>, aggregated |-> <<>>,
     chunk_results |-> <<>>, failed_fallback |-> <<>>]

\* The state on entry of execute_batch_requests with R requests, named 1..R.
BatchStart(R, chunk_size, max_chunk_retries) ==
    [BatchIdle EXCEPT
        !.pc = IF R = 0 THEN "returned" ELSE "chunk",
        !.R = R, !.chunk_size = chunk_size, !.max_chunk_retries = max_chunk_retries,
        !.chunks = chunk_list([i \in 1..R |-> i], Max(1, chunk_size)),
        !.hist = [i \in 1..R |-> <<>>],
        !.last_error = [i \in 1..R |-> "none"]]

\* for chunk in chunk_list(...): the next chunk is taken, or the function returns.
BatchNextChunk ==
    /\ batch.pc = "chunk"
    /\ IF batch.ci < Len(batch.chunks)
         THEN batch' = [batch EXCEPT !.pc = "round", !.ci = @ + 1,
                                     !.remaining = batch.chunks[batch.ci + 1],
                                     !.chunk_results = <<>>, !.failed_fallback = <<>>,
                                     !.attempt = 1]
         ELSE batch' = [batch EXCEPT !.pc = "returned"]
    /\ UNCHANGED <<mar, clone, san, mem, up>>

\* A variant of the end of a round that keeps every entry of the round, not only the
\* ones scheduled for a retry, when any entry is to be retried.
AfterRoundKeepAll(b, retry_entries, attempt_results, issued, executed) ==
    [b EXCEPT !.chunk_results = @ \o attempt_results,
              !.rounds = Append(@, [chunk |-> b.ci, attempt |-> b.attempt,
                                    entries |-> issued, executed |-> executed]),
              !.remaining = IF retry_entries = <<>> THEN <<>> ELSE issued,
              !.attempt = IF retry_entries # <<>> /\ b.attempt < Max(1, b.max_chunk_retries)
                            THEN @ + 1 ELSE @,
              !.pc = IF retry_entries # <<>> /\ b.attempt < Max(1, b.max_chunk_retries)
                       THEN "round" ELSE "after_rounds"]

\* After a round: retry_entries decides between leaving the loop and one more round.
AfterRound(b, retry_entries, attempt_results, issued, executed) ==
    LET b1 == [b EXCEPT !.chunk_results = @ \o attempt_results,
                        !.rounds = Append(@, [chunk |-> b.ci, attempt |-> b.attempt,
                                              entries |-> issued, executed |-> executed])]
    IN  IF retry_entries = <<>>
          THEN [b1 EXCEPT !.remaining = <<>>, !.pc = "after_rounds"]
        ELSE IF b.attempt >= Max(1, b.max_chunk_retries)
          THEN [b1 EXCEPT !.remaining = retry_entries, !.pc = "after_rounds"]
        ELSE [b1 EXCEPT !.remaining = retry_entries, !.attempt = @ + 1,
                        !.pc = IF retry_entries # <<>> /\ b.attempt + 1 <= Max(1, b.max_chunk_retries)
                                 THEN "round" ELSE "after_rounds"]

\* One round of the while loop in which make_api_request(batch.execute) ran the
\* batch: every remaining request gets its success or its failure callback.
BatchRoundExecuted ==
    /\ batch.pc = "round"
    /\ \E answers \in [Range(batch.remaining) -> BatchAnswers] :
         LET attempt_results == EntriesWith(batch.remaining, answers, "ok")
             retry_entries == EntriesWith(batch.remaining, answers, "requeued")
             b1 == [batch EXCEPT !.hist = [r \in DOMAIN batch.hist |->
                        IF r \in Range(batch.remaining)
                          THEN Append(batch.hist[r], CallbackOutcome(answers[r]))
                          ELSE batch.hist[r]],
                                 !.last_error = [r \in DOMAIN batch.hist |->
                        IF r \in Range(batch.remaining)
                          THEN ErrorBodyClass(answers[r])
                          ELSE batch.last_error[r]]]
         IN  batch' = AfterRound(b1, retry_entries, attempt_results, batch.remaining, TRUE)
    /\ UNCHANGED <<mar, clone, san, mem, up>>

\* One round in which make_api_request(batch.execute) returned None because the batch
\* call itself failed: no callback ran, attempt_results and retry_entries are empty.
BatchRoundCallFailed ==
    /\ batch.pc = "round"
    /\ LET b1 == [batch EXCEPT !.hist = [r \in DOMAIN batch.hist |->
                      IF r \in Range(batch.remaining)
                        THEN Append(batch.hist[r], "no_callback")
                        ELSE batch.hist[r]]]
       IN  batch' = AfterRound(b1, <<>>, <<>>, batch.remaining, FALSE)
    /\ UNCHANGED <<mar, clone, san, mem, up>>

\* aggregated.extend(chunk_results); if remaining_entries: the sequential fallback starts.
BatchAfterRounds ==
    /\ batch.pc = "after_rounds"
    /\ batch' = [batch EXCEPT !.aggregated = @ \o batch.chunk_results,
                              !.chunk_results = <<>>,
                              !.pc = IF batch.remaining # <<>> THEN "fallback" ELSE "pause"]
    /\ UNCHANGED <<mar, clone, san, mem, up>>

\* A variant of the fallback loop that gives up the remaining entries at the first
\* entry that fails.
FallbackStepStopAtFailure(b, outcome) ==
    [b EXCEPT !.remaining = IF outcome = "fallback_ok" THEN Tail(@) ELSE <<>>,
              !.hist[Head(b.remaining)] = Append(@, outcome),
              !.aggregated = IF outcome = "fallback_ok" THEN Append(@, Head(b.remaining)) ELSE @,
              !.failed_fallback = IF outcome = "fallback_ok" THEN @
                                  ELSE Append(@, Head(b.remaining)),
              !.pc = IF outcome # "fallback_ok" \/ Tail(b.remaining) = <<>>
                       THEN "pause" ELSE "fallback"]

\* One entry of the fallback loop; outcome is what make_api_request(request_obj.execute,
\* max_retries=3) and response_handler did: "fallback_ok", "fallback_none" (None
\* returned) or "fallback_handler_error" (the handler raised).
FallbackStep(b, outcome) ==
    LET entry == Head(b.remaining)
    IN  [b EXCEPT !.remaining = Tail(@),
                  !.hist[entry] = Append(@, outcome),
                  !.aggregated = IF outcome = "fallback_ok" THEN Append(@, entry) ELSE @,
                  !.failed_fallback = IF outcome = "fallback_ok" THEN @ ELSE Append(@, entry),
                  !.pc = IF Tail(b.remaining) = <<>> THEN "pause" ELSE "fallback"]

BatchFallbackOk ==
    /\ batch.pc = "fallback"
    /\ batch' = FallbackStep(batch, "fallback_ok")
    /\ UNCHANGED <<mar, clone, san, mem, up>>

BatchFallbackNone ==
    /\ batch.pc = "fallback"
    /\ batch' = FallbackStep(batch, "fallback_none")
    /\ UNCHANGED <<mar, clone, san, mem, up>>

BatchFallbackHandlerError ==
    /\ batch.pc = "fallback"
    /\ batch' = FallbackStep(batch, "fallback_handler_error")
    /\ UNCHANGED <<mar, clone, san, mem, up>>

\* remaining_entries = failed_fallback; time.sleep(pause_seconds); next chunk.
BatchPause ==
    /\ batch.pc = "pause"
    /\ batch' = [batch EXCEPT !.pc = "chunk", !.remaining = <<>>]
    /\ UNCHANGED <<mar, clone, san, mem, up>>


(***************************************************************************)
(* Specifications.                                                         *)
(***************************************************************************)
MemIdle ==
    [pc |-> "idle", stage |-> 1, is_cbo |-> FALSE, inputs |-> "none", heap |-> <<>>,
     template |-> <<>>]

UpIdle ==
    [pc |-> "idle", page |-> "cloner", mime |-> "none", suffix |-> "none",
     asset_kind |-> "unset", temp_suffix |-> "none", file_exists |-> FALSE, uploads |-> 0,
     polls |-> 0, elapsed |-> 0, result |-> "none", error |-> "none"]

SanIdle ==
    [pc |-> "idle", daily |-> None, lifetime |-> None, form |-> "top",
     object_type |-> "campaign", now_utc |-> 0, result |-> None]

\* make_api_request, for every max_retries and initial_backoff of the bounds.
RetryInit ==
    /\ \E n \in 0..MaxRetries, b \in {1, 5, 400} : mar = MarStart(n, b)
    /\ batch = BatchIdle /\ clone = CloneIdle /\ san = SanIdle
    /\ mem = MemIdle /\ up = UpIdle

RetryNext == MarCallValue \/ MarCallFbError \/ MarCallException \/ MarExhausted

RetrySpec == RetryInit /\ [][RetryNext]_vars

\* execute_batch_requests, for every request count, chunk size and round budget of the bounds.
BatchInit ==
    /\ \E R \in 0..MaxRequests, cs \in 0..MaxChunkSize, mcr \in 0..MaxChunkRetries :
          batch = BatchStart(R, cs, mcr)
    /\ mar = MarIdle /\ clone = CloneIdle /\ san = SanIdle
    /\ mem = MemIdle /\ up = UpIdle

BatchNext ==
    \/ BatchNextChunk \/ BatchRoundExecuted \/ BatchRoundCallFailed \/ BatchAfterRounds
    \/ BatchFallbackOk \/ BatchFallbackNone \/ BatchFallbackHandlerError \/ BatchPause

BatchSpec == BatchInit /\ [][BatchNext]_vars

\* execute_batch_requests runs to its end: every step of it is a call that returns
\* (make_api_request ends after max_retries attempts, the sleeps are finite), so a step
\* that can be taken is taken.
BatchLiveSpec == BatchSpec /\ WF_vars(BatchNext)


(***************************************************************************)
(* sanitize_payload on payloads that hold both budget fields.  Each budget *)
(* value is drawn with what Python makes of it: positive tells whether     *)
(* float(value) exists and is greater than 0.                              *)
(***************************************************************************)
BudgetInputs ==
    { [v |-> Str(<<"5", "0", "0">>),  positive |-> TRUE],
      [v |-> Str(<<" ", "7", " ">>),  positive |-> TRUE],
      [v |-> Str(<<"0", ".", "4">>),  positive |-> TRUE],
      [v |-> Str(<<"0">>),            positive |-> FALSE],
      [v |-> Str(<<"-", "3">>),       positive |-> FALSE],
      [v |-> Str(<<"x">>),            positive |-> FALSE],
      [v |-> Str(<<>>),               positive |-> FALSE],
      [v |-> PyInt(5),                positive |-> TRUE],
      [v |-> PyInt(0),                positive |-> FALSE],
      [v |-> PyFloat(25),             positive |-> TRUE],
      [v |-> PyFloat(-10),            positive |-> FALSE],
      [v |-> PyBool(TRUE),            positive |-> TRUE],
      [v |-> PyBool(FALSE),           positive |-> FALSE],
      [v |-> None,                    positive |-> FALSE],
      [v |-> PyList(<<>>),            positive |-> FALSE] }

BudgetDict(daily, lifetime) ==
    PyDict(("name" :> Str(<<"A">>)) @@ ("daily_budget" :> daily.v)
           @@ ("lifetime_budget" :> lifetime.v))

\* The payload of a form: the dict with the budgets is the payload, a value of the
\* payload, or an item of a list payload.
PayloadOf(form, daily, lifetime) ==
    CASE form = "top" -> BudgetDict(daily, lifetime)
      [] form = "nested" -> PyDict(("name" :> Str(<<"A">>))
                                   @@ ("promoted_object" :> BudgetDict(daily, lifetime)))
      [] form = "list" -> PyList(<<BudgetDict(daily, lifetime)>>)

SanitizeInit ==
    /\ \E daily \in BudgetInputs, lifetime \in BudgetInputs, form \in {"top", "nested", "list"},
          object_type \in {"campaign", "adset"} :
         san = [pc |-> "call", daily |-> daily, lifetime |-> lifetime, form |-> form,
                object_type |-> object_type, now_utc |-> 0, result |-> None]
    /\ mar = MarIdle /\ batch = BatchIdle /\ clone = CloneIdle
    /\ mem = MemIdle /\ up = UpIdle

\* result = sanitize_payload(payload, object_type).
SanitizeCall ==
    /\ san.pc = "call"
    /\ san' = [san EXCEPT !.pc = "done",
                          !.result = sanitize_payload(PayloadOf(san.form, san.daily, san.lifetime),
                                                      san.object_type, san.now_utc)]
    /\ UNCHANGED <<mar, batch, clone, mem, up>>

SanitizeSpec == SanitizeInit /\ [][SanitizeCall]_vars

(***************************************************************************)
(* sanitize_payload run twice on a payload, the second run on the result   *)
(* of the first and no earlier than it, as create_ad_object does with a    *)
(* payload the cloner has sanitized.  A payload is a named dict with one   *)
(* more field, drawn from the fields the rules of _apply_dict_rules read.  *)
(***************************************************************************)
ProbeFields ==
    { [key |-> "daily_budget", v |-> Str(<<"5", "0", "0">>)],
      [key |-> "daily_budget", v |-> Str(<<"0", ".", "4">>)],
      [key |-> "lifetime_budget", v |-> PyInt(5)],
      [key |-> "lifetime_budget", v |-> Str(<<"x">>)],
      [key |-> "spend_cap", v |-> Str(<<"1", "2">>)],
      [key |-> "spend_cap", v |-> Str(<<"0">>)],
      [key |-> "spend_cap", v |-> PyFloat(4)],
      [key |-> "special_ad_categories", v |-> Str(<<"A", ",", " ", "B">>)],
      [key |-> "special_ad_categories", v |-> PyList(<<Str(<<" ", "A">>), PyInt(5), None>>)],
      [key |-> "special_ad_categories", v |-> PyInt(5)],
      [key |-> "brand_safety_content_filter_levels", v |-> Str(<<"A", ",", "B">>)],
      [key |-> "brand_safety_content_filter_levels", v |-> PyInt(5)],
      [key |-> "special_ad_categories", v |-> Str(<<"A", " ", ",", "A">>)],
      [key |-> "brand_safety_content_severity_levels",
       v |-> PyList(<<Str(<<"B">>), Str(<<" ", "B">>)>>)],
      [key |-> "excluded_brand_safety_content_types",
       v |-> PyList(<<Str(<<" ">>), Str(<<"C", " ">>), Str(<<"D">>)>>)],
      [key |-> "start_time", v |-> Str(<<"T", "1", "+">>)],
      [key |-> "start_time", v |-> Str(<<"T", "9", "Z">>)],
      [key |-> "start_time", v |-> Str(<<" ", "T", "9">>)],
      [key |-> "start_time", v |-> PyInt(9)],
      [key |-> "start_time", v |-> PyFloat(97)],
      [key |-> "start_time", v |-> Str(<<"x">>)],
      [key |-> "start_time", v |-> Str(<<>>)],
      [key |-> "stop_time", v |-> Str(<<"T", "9", "Z">>)],
      [key |-> "stop_time", v |-> PyFloat(15)],
      [key |-> "stop_time", v |-> Str(<<"9">>)],
      [key |-> "end_time", v |-> Str(<<"T", "1">>)],
      [key |-> "end_time", v |-> None],
      [key |-> "bid_amount", v |-> Str(<<" ", "7", " ">>)],
      [key |-> "bid_amount", v |-> Str(<<"1", ".", "5">>)],
      [key |-> "objective", v |-> Str(<<"x">>)],
      [key |-> "id", v |-> Str(<<"1", "2", "3">>)],
      [key |-> "account_id", v |-> Str(<<"4", "2">>)],
      [key |-> "campaign_id", v |-> Str(<<"5", "5">>)],
      [key |-> "adset_id", v |-> Str(<<"7", "1">>)],
      [key |-> "creative_id", v |-> Str(<<"6", "1", "1">>)],
      [key |-> "parent_id", v |-> Str(<<"0", "7">>)],
      [key |-> "existing_creative_id", v |-> Str(<<"9">>)],
      [key |-> "page_id", v |-> Str(<<"1", "0">>)],
      [key |-> "video_id", v |-> Str(<<" ", "8", " ">>)],
      [key |-> "retailer_item_ids", v |-> Str(<<"3", "1">>)] }

ProbeDict(probe) == PyDict(("name" :> Str(<<"A">>)) @@ (probe.key :> probe.v))

\* The payload of a form: the dict with the field is the payload, a value of the
\* payload, an item of a list payload, or an item of a list inside the payload.
ProbePayload(form, probe) ==
    CASE form = "top" -> ProbeDict(probe)
      [] form = "nested" -> PyDict(("name" :> Str(<<"A">>))
                                   @@ ("promoted_object" :> ProbeDict(probe)))
      [] form = "list" -> PyList(<<ProbeDict(probe)>>)
      [] form = "deep" -> PyDict(("name" :> Str(<<"A">>))
                                 @@ ("targeting" :> PyList(<<ProbeDict(probe)>>)))

\* What the clock reads at the first run, and how much later the second run is, in
\* tenths of a second.
ClockReadings == {20, 95, 130}

ClockDelays == {0, 3, 40}

ResanitizeInit ==
    /\ \E probe \in ProbeFields, form \in {"top", "nested", "list", "deep"},
          object_type \in {"campaign", "adset", "ad set"}, now_utc \in ClockReadings :
         san = [pc |-> "call", probe |-> probe, form |-> form, object_type |-> object_type,
                now_utc |-> now_utc, later_utc |-> now_utc, first |-> None, second |-> None]
    /\ mar = MarIdle /\ batch = BatchIdle /\ clone = CloneIdle
    /\ mem = MemIdle /\ up = UpIdle

\* first = sanitize_payload(payload, object_type).
ResanitizeFirst ==
    /\ san.pc = "call"
    /\ san' = [san EXCEPT !.pc = "once",
                          !.first = sanitize_payload(ProbePayload(san.form, san.probe),
                                                     san.object_type, san.now_utc)]
    /\ UNCHANGED <<mar, batch, clone, mem, up>>

\* second = sanitize_payload(first, object_type), the clock having moved on or not.
ResanitizeSecond ==
    /\ san.pc = "once"
    /\ \E delay \in ClockDelays :
         san' = [san EXCEPT !.pc = "twice", !.later_utc = san.now_utc + delay,
                            !.second = sanitize_payload(san.first, san.object_type,
                                                        san.now_utc + delay)]
    /\ UNCHANGED <<mar, batch, clone, mem, up>>

ResanitizeNext == ResanitizeFirst \/ ResanitizeSecond

ResanitizeSpec == ResanitizeInit /\ [][ResanitizeNext]_vars

(***************************************************************************)
(* Payload assembly for one field: the template holds the field or not,    *)
(* the operator has overridden it or not.                                  *)
(***************************************************************************)
AssembledFields ==
    {"daily_budget", "bid_amount", "is_dynamic_creative", "name", "status",
     "promoted_object", "special_ad_categories", "targeting", "campaign_id"}

\* The field that a template or the overrides do not hold.
Absent == [t |-> "absent"]

\* The values a template or an override holds for a field.
FieldValues ==
    {None, Str(<<>>), Str(<<" ">>), Str(<<"0">>), Str(<<" ", "7", " ">>), Str(<<"x">>),
     Str(<<"Y">>), Str(<<"2", ".", "5">>), PyInt(0), PyInt(5), PyFloat(15), PyBool(FALSE),
     PyList(<<>>), PyDict("a" :> Str(<<"1">>))}

\* A dict with a bid strategy and, unless it is absent, the field.
FieldDict(field, v) ==
    IF v = Absent THEN ("bid_strategy" :> Str(<<"x">>))
    ELSE Put("bid_strategy" :> Str(<<"x">>), field, v)

\* The payload of a kind, assembled from a template and the overrides.
AssembledPayload(kind, template, overrides, is_cbo) ==
    CASE kind = "campaign" -> sanitize_campaign_payload(template, overrides, is_cbo)
      [] kind = "adset" -> sanitize_adset_payload(template, overrides, NewId(1), is_cbo)
      [] kind = "ad" -> sanitize_ad_payload(template, overrides, NewId(2), NewId(3))

AssembleInit ==
    /\ \E kind \in {"campaign", "adset", "ad"}, field \in AssembledFields,
          original \in FieldValues \cup {Absent}, value \in FieldValues \cup {Absent},
          is_cbo \in BOOLEAN :
         /\ field \in {"daily_budget", "bid_amount"} =>
                ~(IsStructured(value) \/ IsStructured(original))
         /\ san = [pc |-> "assemble", kind |-> kind, field |-> field, original |-> original,
                   value |-> value, is_cbo |-> is_cbo, payload |-> <<>>]
    /\ mar = MarIdle /\ batch = BatchIdle /\ clone = CloneIdle
    /\ mem = MemIdle /\ up = UpIdle

\* payload = sanitize_<kind>_payload(template, overrides, ...).
AssembleCall ==
    /\ san.pc = "assemble"
    /\ san' = [san EXCEPT !.pc = "built",
                          !.payload = AssembledPayload(san.kind,
                                                       FieldDict(san.field, san.original),
                                                       IF san.value = Absent THEN <<>>
                                                       ELSE (san.field :> san.value),
                                                       san.is_cbo)]
    /\ UNCHANGED <<mar, batch, clone, mem, up>>

AssembleSpec == AssembleInit /\ [][AssembleCall]_vars


(***************************************************************************)
(* The inputs of a cloning run: a template graph fetched from the source   *)
(* campaign (whose identifiers are 55, 7i, 8ij and 6ij), the operator's    *)
(* overrides and the CBO flag.                                             *)
(***************************************************************************)
SourceCampaignId == Str(<<"5", "5">>)

\* The identifier of the source object of a kind (digit 7 ad set, 8 ad, 6 creative) at a
\* position of the template graph.
SourceId(digit, i, j) ==
    Str(<<digit>> \o IntToChars(i) \o (IF j = 0 THEN <<>> ELSE IntToChars(j)))

\* The budget fields of a template object, by profile.
BudgetFields(profile) ==
    CASE profile = "daily" -> ("daily_budget" :> Str(<<"5", "0", "0">>))
      [] profile = "zero" -> ("daily_budget" :> Str(<<"0">>)) @@ ("lifetime_budget" :> Str(<<"0">>))
      [] profile = "both" -> ("daily_budget" :> Str(<<"5", "0", "0">>))
                             @@ ("lifetime_budget" :> Str(<<"7", "0", "0">>))
      [] profile = "text" -> ("daily_budget" :> Str(<<"x">>))

\* The operator's campaign overrides: none, or both budget inputs set to 0.0.
CampaignOverrides(profile) ==
    CASE profile = "none" -> <<>>
      [] profile = "zeroed" -> ("daily_budget" :> PyFloat(0)) @@ ("lifetime_budget" :> PyFloat(0))

TemplateCampaign(profile) ==
    ("id" :> SourceCampaignId) @@ ("name" :> Str(<<"A", " ">>)) @@ BudgetFields(profile)

TemplateAd(i, j, has_creative) ==
    [fields |-> ("id" :> SourceId("8", i, j)) @@ ("name" :> Str(<<"4", "2">>))
                @@ ("adset_id" :> SourceId("7", i, 0)) @@ ("campaign_id" :> SourceCampaignId)
                @@ ("creative" :> PyDict("id" :> SourceId("6", i, j))),
     creative_details |-> IF has_creative
                            THEN PyDict(("id" :> SourceId("6", i, j)) @@ ("name" :> Str(<<"B">>)))
                            ELSE None]

TemplateAdSet(i, profile, n_ads, missing) ==
    [fields |-> ("id" :> SourceId("7", i, 0)) @@ ("name" :> Str(<<"B">>))
                @@ ("campaign_id" :> SourceCampaignId) @@ BudgetFields(profile),
     ads |-> [j \in 1..n_ads |-> TemplateAd(i, j, j # missing)]]

\* The overrides of the ad sets: empty, or (parent_refs) holding the source tree's
\* identifiers for every parent reference.
AdSetInputs(i, n_ads, parent_refs) ==
    IF parent_refs
      THEN [fields |-> ("campaign_id" :> SourceCampaignId),
            ads |-> [j \in 1..n_ads |->
                       [fields |-> ("adset_id" :> SourceId("7", i, 0))
                                   @@ ("creative" :> PyDict("creative_id" :> SourceId("6", i, j)))]]]
      ELSE [fields |-> <<>>, ads |-> <<>>]

CloneInit ==
    /\ \E is_cbo \in BOOLEAN, cb \in {"daily", "zero", "both", "text"}, co \in {"none", "zeroed"},
          n_adsets \in 0..MaxAdSets, n_ads \in 0..MaxAds, parent_refs \in BOOLEAN :
         \E profiles \in [1..n_adsets -> {"daily", "zero"}],
            missing \in {m \in 0..1 : m <= n_ads} :
           clone = CloneStart(
                     [campaign |-> TemplateCampaign(cb),
                      ad_sets |-> [i \in 1..n_adsets |->
                                     TemplateAdSet(i, profiles[i], n_ads, missing)]],
                     [campaign |-> CampaignOverrides(co),
                      ad_sets |-> [i \in 1..n_adsets |-> AdSetInputs(i, n_ads, parent_refs)]],
                     is_cbo)
    /\ mar = MarIdle /\ batch = BatchIdle /\ san = SanIdle
    /\ mem = MemIdle /\ up = UpIdle

CloneNext ==
    \/ CloneCampaignAssemblyError \/ CloneCreateCampaign
    \/ CloneAdSetAssemblyError \/ CloneCreateAdSet
    \/ CloneSkipAd \/ CloneCreateCreative \/ CloneCreateAd
    \/ CloneNextAdSet \/ CloneFinish

Spec == CloneInit /\ [][CloneNext]_vars

(***************************************************************************)
(* The objects of a cloning run.  The template graph is made of dicts and  *)
(* lists that the run reads; a payload the cloner assembles holds, for a   *)
(* field it takes unchanged from the template, the template's own dict or  *)
(* list (normalize_input_value returns its argument), so that a write      *)
(* through the payload would be a write to the template.  The heap maps    *)
(* an address to a dict or a list whose members are values or references   *)
(* to other addresses.                                                     *)
(***************************************************************************)
Ref(a) == [t |-> "ref", a |-> a]

\* The value an address or a member stands for, references followed.
RECURSIVE Deref(_, _)
Deref(heap, cell) ==
    CASE cell.t = "ref" -> Deref(heap, heap[cell.a])
      [] cell.t = "dict" -> PyDict([k \in DOMAIN cell.d |-> Deref(heap, cell.d[k])])
      [] cell.t = "list" -> PyList([i \in DOMAIN cell.l |-> Deref(heap, cell.l[i])])
      [] OTHER -> cell

\* The stages of the run for a template of one ad set with one ad, and the template
\* object each stage reads.
Stages == <<"campaign", "adset", "creative", "ad">>

TemplateRoot(kind) ==
    CASE kind = "campaign" -> "t_campaign"
      [] kind = "adset" -> "t_adset"
      [] kind = "creative" -> "t_creative"
      [] kind = "ad" -> "t_ad"

\* The template graph as fetch_campaign_details leaves it in memory: the campaign with
\* its promoted_object, the ad set with its targeting, the ad with its tracking_specs
\* and its creative_details with a nested dict; payload and params are the two dicts a
\* stage of the run allocates.
TemplateHeap(profile) ==
    [t_campaign |-> PyDict(TemplateCampaign(profile)
                           @@ ("promoted_object" :> Ref("t_promoted"))),
     t_promoted |-> PyDict(("page_id" :> Str(<<"1", "0">>)) @@ ("name" :> Str(<<"4", "2">>))),
     t_adset |-> PyDict(TemplateAdSet(1, profile, 0, 0).fields
                        @@ ("targeting" :> Ref("t_targeting"))),
     t_targeting |-> PyDict(("age_min" :> Str(<<"1", "8">>))
                            @@ ("geo_locations" :> PyDict("countries" :> PyList(<<Str(<<"x">>)>>)))),
     t_ad |-> PyDict(TemplateAd(1, 1, TRUE).fields @@ ("tracking_specs" :> Ref("t_tracking"))),
     t_tracking |-> PyList(<<PyDict("name" :> Str(<<" ", "7", " ">>))>>),
     t_creative |-> PyDict(TemplateAd(1, 1, TRUE).creative_details.d
                           @@ ("platform_customizations" :> Ref("t_custom"))),
     t_custom |-> PyDict("name" :> Str(<<"4", "2">>)),
     payload |-> PyDict(<<>>),
     params |-> PyDict(<<>>)]

\* The operator's overrides of a stage: none, or (own) a new name and containers of the
\* operator's own for the fields the template holds a container for.
StageOverrides(kind, inputs) ==
    IF inputs = "none" \/ kind = "creative" THEN <<>>
    ELSE ("name" :> Str(<<"C">>))
         @@ (IF kind = "campaign" THEN ("promoted_object" :> PyDict("page_id" :> Str(<<"1", "1">>)))
             ELSE IF kind = "adset" THEN ("targeting" :> PyDict("age_min" :> PyInt(21)))
             ELSE ("tracking_specs" :> PyList(<<>>)))

\* The members of the payload sanitize_<kind>_payload builds: a field taken from the
\* template whose value is a dict or a list is the template's object itself (lines
\* 127-128 return value), every other member is a value of the payload's own.
AliasedCells(base, overrides, payload) ==
    [k \in DOMAIN payload |->
       IF k \in DOMAIN base /\ k \notin DOMAIN overrides /\ base[k].t = "ref"
         THEN base[k] ELSE payload[k]]

\* The payload dict of a stage: build_creative_payload works on a deep copy of the
\* creative template (line 727), the three sanitize_<kind>_payload functions read the
\* template and the overrides.
PayloadCells(heap, kind, inputs, is_cbo) ==
    IF kind = "creative"
      THEN build_creative_payload(Deref(heap, Ref("t_creative")), <<>>, <<>>)
      ELSE PyDict(AliasedCells(heap[TemplateRoot(kind)].d, StageOverrides(kind, inputs),
                               AssembledPayload(kind, Deref(heap, Ref(TemplateRoot(kind))).d,
                                                StageOverrides(kind, inputs), is_cbo)))

\* A variant of _sanitize that writes the sanitized members back into the dicts and
\* lists it was given instead of building new ones.
SanitizeInPlace(heap, src, dst, sanitized) ==
    [a \in DOMAIN heap |->
       IF a = dst THEN sanitized
       ELSE IF \E k \in DOMAIN heap[src].d \cap DOMAIN sanitized.d : heap[src].d[k] = Ref(a)
         THEN sanitized.d[CHOOSE k \in DOMAIN heap[src].d \cap DOMAIN sanitized.d :
                            heap[src].d[k] = Ref(a)]
         ELSE heap[a]]

\* sanitize_payload(src) stored at dst: _sanitize builds a new dict or list for every
\* dict or list it meets (lines 268-274), so the result shares nothing with src, and
\* only dst changes.  With dst = src this is create_ad_object's payload.clear();
\* payload.update(clean_payload) (lines 405-407).
SanitizeCopy(heap, src, dst, sanitized) == [heap EXCEPT ![dst] = sanitized]

\* What the clock reads at a step (0 assembly, 1 create) of a stage.
StageClock(m, step) == 2 * m.stage + step

\* Lines 802-803, 839-840, 876-883, 887-890: payload = sanitize_<kind>_payload(...) or
\* build_creative_payload(...), then params = sanitize_payload(payload, kind).
WithPayload(heap, cells) == [heap EXCEPT !["payload"] = cells]

WithParams(heap, kind, now_utc) ==
    SanitizeCopy(heap, "payload", "params",
                 sanitize_payload(Deref(heap, Ref("payload")), kind, now_utc))

\* Lines 805-806 and 842-843: the budget checks, which raise ValueError.
StageBudgetMissing(m, kind, params) ==
    \/ kind = "campaign" /\ m.is_cbo /\ ~HasBudget(params)
    \/ kind = "adset" /\ ~m.is_cbo /\ ~HasBudget(params)

StageAssembled(m, heap) ==
    [m EXCEPT !.heap = heap,
              !.pc = IF StageBudgetMissing(m, Stages[m.stage], heap["params"])
                       THEN "raised" ELSE "create"]

\* A cloning run over the template graph, for every budget profile, override and CBO flag.
StageInit ==
    /\ \E profile \in {"daily", "zero", "both", "text"}, inputs \in {"none", "own"},
          is_cbo \in BOOLEAN :
         mem = [pc |-> "assemble", stage |-> 1, is_cbo |-> is_cbo, inputs |-> inputs,
                heap |-> TemplateHeap(profile), template |-> TemplateHeap(profile)]
    /\ mar = MarIdle /\ batch = BatchIdle /\ clone = CloneIdle /\ san = SanIdle
    /\ up = UpIdle

\* The payload and the params of the stage are built.
StageAssemble ==
    /\ mem.pc = "assemble"
    /\ mem' = StageAssembled(mem,
                  WithParams(WithPayload(mem.heap,
                                         PayloadCells(mem.heap, Stages[mem.stage],
                                                      mem.inputs, mem.is_cbo)),
                             Stages[mem.stage], StageClock(mem, 0)))
    /\ UNCHANGED <<mar, batch, clone, san, up>>

\* create_ad_object(creation_function, params, label): params is sanitized again and
\* rewritten in place, the call is made; the run goes on to the next stage with an
\* identifier, returns None without one (lines 814-823) and lets an exception through.
StageCreate ==
    /\ mem.pc = "create"
    /\ \E outcome \in CreationOutcomes :
         mem' = [mem EXCEPT
                   !.heap = SanitizeCopy(mem.heap, "params", "params",
                                         sanitize_payload(Deref(mem.heap, Ref("params")),
                                                          ObjectTypeOf(Stages[mem.stage]),
                                                          StageClock(mem, 1))),
                   !.pc = CASE outcome = "exception" -> "raised"
                            [] outcome \in {"no_id", "none", "rate_limited", "fb_error"} -> "aborted"
                            [] mem.stage = Len(Stages) -> "done"
                            [] OTHER -> "assemble",
                   !.stage = IF outcome = "id" /\ mem.stage < Len(Stages) THEN @ + 1 ELSE @]
    /\ UNCHANGED <<mar, batch, clone, san, up>>

StageNext == StageAssemble \/ StageCreate

StageSpec == StageInit /\ [][StageNext]_vars

(***************************************************************************)
(* upload_asset of the cloner page and of the uploader page, and the       *)
(* temporary file it writes the uploaded bytes to.  A file is described by *)
(* the class of its MIME type and of its suffix; time is in seconds.       *)
(***************************************************************************)
MimeClasses == {"image", "video", "other", "none"}

SuffixClasses == {"image", "video", "other", "none"}

\* infer_asset_kind of the cloner page: the MIME type is the file's or, without one,
\* the one mimetypes guesses from the name; anything that is not a video is an image.
infer_asset_kind(mime, suffix) ==
    IF (IF mime = "none" THEN suffix ELSE mime) = "video" \/ suffix = "video"
      THEN "video" ELSE "image"

\* infer_asset_type of the uploader page: the MIME type decides, then the suffix;
\* ValueError for a file that is neither.
infer_asset_type(mime, suffix) ==
    CASE mime = "image" -> "image"
      [] mime = "video" -> "video"
      [] suffix = "image" -> "image"
      [] suffix = "video" -> "video"
      [] OTHER -> "unsupported"

AssetKindOf(u) ==
    IF u.page = "cloner" THEN infer_asset_kind(u.mime, u.suffix)
    ELSE infer_asset_type(u.mime, u.suffix)

\* The suffix of the temporary file: the file's own or, without one, .mp4 or .jpg.
TempSuffix(suffix, asset_kind) ==
    IF suffix # "none" THEN suffix ELSE IF asset_kind = "video" THEN "video" ELSE "image"

\* timeout and interval of wait_for_video_ready.
VideoTimeout == 600

PollInterval == 5

\* How long a status request takes: no time, or most of the timeout (make_api_request
\* backs off inside it).
RequestSeconds == {0, 400}

\* A variant of the cleanup that leaves the temporary file where it is.
KeepTemp(u) == u

\* The finally block: temp_path.unlink(), FileNotFoundError ignored.
UnlinkTemp(u) == [u EXCEPT !.file_exists = FALSE]

\* The try block is left by a return or by an exception; the finally block runs.
UpReturn(u, key) == [UnlinkTemp(u) EXCEPT !.pc = "returned", !.result = key]

UpRaise(u, error) == [UnlinkTemp(u) EXCEPT !.pc = "raised", !.error = error]

UploadInit ==
    /\ \E page \in {"cloner", "uploader"}, mime \in MimeClasses, suffix \in SuffixClasses :
         up = [pc |-> "start", page |-> page, mime |-> mime, suffix |-> suffix,
               asset_kind |-> "unset", temp_suffix |-> "none", file_exists |-> FALSE,
               uploads |-> 0, polls |-> 0, elapsed |-> 0, result |-> "none",
               error |-> "none"]
    /\ mar = MarIdle /\ batch = BatchIdle /\ clone = CloneIdle /\ san = SanIdle
    /\ mem = MemIdle

\* Uploader, line 53: an unsupported file raises ValueError before any file is created.
UpUnsupported ==
    /\ up.pc = "start" /\ AssetKindOf(up) = "unsupported"
    /\ up' = [up EXCEPT !.pc = "raised", !.error = "ValueError",
                        !.asset_kind = "unsupported"]
    /\ UNCHANGED <<mar, batch, clone, san, mem>>

\* NamedTemporaryFile(delete=False, suffix=suffix) and the write of the uploaded bytes,
\* which are outside the try block: the file exists from here on, and a write that
\* raises leaves upload_asset before the try block is entered.
UpCreateTemp ==
    /\ up.pc = "start" /\ AssetKindOf(up) # "unsupported"
    /\ \E written \in BOOLEAN :
         up' = [up EXCEPT !.pc = IF written THEN "upload" ELSE "raised",
                          !.error = IF written THEN "none" ELSE "write",
                          !.asset_kind = AssetKindOf(up),
                          !.temp_suffix = TempSuffix(up.suffix, AssetKindOf(up)),
                          !.file_exists = TRUE]
    /\ UNCHANGED <<mar, batch, clone, san, mem>>

\* The upload through make_api_request, which gives a response with an identifier, a
\* response without one, or None: RuntimeError without an identifier; with one the
\* function returns, or (uploader, video) waits for the video to be ready.
UpUpload ==
    /\ up.pc = "upload"
    /\ \E response \in {"id", "no_id", "none"} :
         up' = CASE response = "none" -> UpRaise([up EXCEPT !.uploads = 1], "no_response")
                 [] response = "no_id" -> UpRaise([up EXCEPT !.uploads = 1], "no_identifier")
                 [] response = "id" /\ up.asset_kind = "image" ->
                      UpReturn([up EXCEPT !.uploads = 1], "image_hash")
                 [] response = "id" /\ up.asset_kind = "video" /\ up.page = "cloner" ->
                      UpReturn([up EXCEPT !.uploads = 1], "video_id")
                 [] OTHER -> [up EXCEPT !.uploads = 1, !.pc = "poll"]
    /\ UNCHANGED <<mar, batch, clone, san, mem>>

\* One round of wait_for_video_ready: the status request, which takes some time and
\* gives None or a status; ready ends the wait and upload_asset returns, no response
\* and an error status raise RuntimeError, any other status raises TimeoutError once
\* more than the timeout has elapsed and otherwise sleeps for the interval.  The
\* temporary file may be removed by someone else in the meantime.
UpPoll ==
    /\ up.pc = "poll"
    /\ \E status \in {"none", "ready", "error", "processing_error", "failed", "processing"},
          took \in RequestSeconds, removed \in BOOLEAN :
         up' = CASE status = "none" -> UpRaise([up EXCEPT !.polls = @ + 1], "no_status")
                 [] status = "ready" -> UpReturn([up EXCEPT !.polls = @ + 1], "video_id")
                 [] status \in {"error", "processing_error", "failed"} ->
                      UpRaise([up EXCEPT !.polls = @ + 1], "processing_failed")
                 [] status = "processing" /\ up.elapsed + took > VideoTimeout ->
                      UpRaise([up EXCEPT !.polls = @ + 1, !.elapsed = @ + took], "timeout")
                 [] OTHER -> [up EXCEPT !.polls = @ + 1,
                                        !.elapsed = @ + took + PollInterval,
                                        !.file_exists = @ /\ ~removed]
    /\ UNCHANGED <<mar, batch, clone, san, mem>>

UploadNext == UpUnsupported \/ UpCreateTemp \/ UpUpload \/ UpPoll

UploadSpec == UploadInit /\ [][UploadNext]_vars

(***************************************************************************)
(* build_creative_payload on creative templates with every kind of story   *)
(* spec (no spec, sections that are dicts or not, with and without assets, *)
(* retailer ids and calls to action), for the creative inputs of the form: *)
(* texts, a comma-separated retailer-id input, and a selected asset.       *)
(***************************************************************************)
ImageHashKey == Str(<<"i", "m", "a", "g", "e", "_", "h", "a", "s", "h">>)

VideoIdKey == Str(<<"v", "i", "d", "e", "o", "_", "i", "d">>)

\* The story specs of the creative templates; Absent for a template without one.
StorySpecs ==
    {Absent,
     PyDict("page_id" :> Str(<<"1", "0">>)),
     PyDict(("page_id" :> Str(<<"1", "0">>))
            @@ ("link_data" :> PyDict(("link" :> Str(<<"x">>))
                                      @@ ("retailer_item_ids" :> PyList(<<Str(<<"Z">>)>>))
                                      @@ ("call_to_action" :>
                                            PyDict(("type" :> Str(<<"x">>))
                                                   @@ ("value" :> PyDict("link" :> Str(<<"x">>)))))))),
     PyDict("link_data" :> PyDict(("image_hash" :> Str(<<"h">>))
                                  @@ ("call_to_action" :> PyDict("type" :> Str(<<"x">>))))),
     PyDict(("link_data" :> PyDict("video_id" :> Str(<<"w">>)))
            @@ ("template_data" :> PyDict("name" :> Str(<<"x">>)))),
     PyDict(("video_data" :> PyDict(("video_id" :> Str(<<"w">>))
                                    @@ ("call_to_action" :> PyDict("type" :> Str(<<"x">>)))))
            @@ ("photo_data" :> PyDict("image_hash" :> Str(<<"h">>)))
            @@ ("retailer_item_ids" :> PyList(<<Str(<<"Z">>)>>))),
     PyDict(("link_data" :> Str(<<"x">>)) @@ ("template_data" :> PyDict(<<>>)))}

\* The retailer-id inputs; Absent for none.
RetailerInputs ==
    {Absent, Str(<<>>), Str(<<"A">>), Str(<<" ", ",", " ">>),
     Str(<<"A", ",", " ", "A", ",", " ", "B", " ", ",">>),
     Str(<<"B", ",", "A", ",", "B">>), Str(<<"A", " ", ",", "A">>)}

\* The asset map of the session, and the asset names the form may hold.
SessionAssets ==
    (Str(<<"i">>) :> PyDict(("type" :> Str(<<"x">>)) @@ ("key" :> ImageHashKey)
                            @@ ("value" :> Str(<<"a", "b", "c", "1", "2", "3">>))))
    @@ (Str(<<"v">>) :> PyDict(("type" :> Str(<<"x">>)) @@ ("key" :> VideoIdKey)
                               @@ ("value" :> Str(<<"9", "9">>))))
    @@ (Str(<<"e">>) :> PyDict(("type" :> Str(<<"x">>)) @@ ("key" :> ImageHashKey)
                               @@ ("value" :> Str(<<>>))))

AssetNames == {Absent, Str(<<"i">>), Str(<<"v">>), Str(<<"e">>), Str(<<"u">>)}

\* The creative template with a story spec, and the creative inputs of the form.
CreativeTemplateWith(story_spec) ==
    PyDict(("id" :> SourceId("6", 1, 1)) @@ ("name" :> Str(<<"B">>))
           @@ ("body" :> Str(<<"x">>)) @@ ("retailer_item_ids" :> PyList(<<Str(<<"Z">>)>>))
           @@ (IF story_spec = Absent THEN <<>> ELSE ("object_story_spec" :> story_spec)))

CreativeInputsWith(texts, retailer_ids, asset_name) ==
    [k \in texts |-> Str(<<"y">>)]
    @@ (IF retailer_ids = Absent THEN <<>> ELSE ("retailer_item_ids" :> retailer_ids))
    @@ (IF asset_name = Absent THEN <<>> ELSE ("asset_name" :> asset_name))

CreativeInit ==
    /\ \E story_spec \in StorySpecs, texts \in SUBSET {"message", "title", "link", "name"},
          retailer_ids \in RetailerInputs, asset_name \in AssetNames :
         san = [pc |-> "build", story_spec |-> story_spec, texts |-> texts,
                retailer_ids |-> retailer_ids, asset_name |-> asset_name, payload |-> None]
    /\ mar = MarIdle /\ batch = BatchIdle /\ clone = CloneIdle
    /\ mem = MemIdle /\ up = UpIdle

\* creative_payload, _ = build_creative_payload(creative_template, creative_inputs, asset_map).
CreativeBuild ==
    /\ san.pc = "build"
    /\ san' = [san EXCEPT !.pc = "creative",
                          !.payload = build_creative_payload(
                                        CreativeTemplateWith(san.story_spec),
                                        CreativeInputsWith(san.texts, san.retailer_ids,
                                                           san.asset_name),
                                        SessionAssets)]
    /\ UNCHANGED <<mar, batch, clone, mem, up>>

CreativeSpec == CreativeInit /\ [][CreativeBuild]_vars

(***************************************************************************)
(* Properties.                                                             *)
(***************************************************************************)
\* Readers of the state used by the properties below.
Calls == clone.calls

GaveId(call) == Truthy(call.id)

BudgetKeys(payload) == {"daily_budget", "lifetime_budget"} \cap DOMAIN payload.d

OnlyRateLimited == \A i \in DOMAIN mar.outcomes : mar.outcomes[i] = "rate_limited"

\* C1: make_api_request with max_retries = N on an operation that is rate limited on
\* every call makes at most N calls, and it returns None when the N-th call has failed
\* (not before it, and with no further call).
C1_RetryBound ==
    OnlyRateLimited =>
        /\ mar.calls <= mar.max_retries
        /\ (mar.pc = "returned" => (mar.calls = mar.max_retries /\ mar.result = "None"))
        /\ (mar.calls = mar.max_retries /\ mar.calls > 0 => mar.pc = "returned")

\* A run of three rate-limited calls that has returned None.
C1_Witness ==
    /\ mar.pc = "returned" /\ mar.result = "None"
    /\ mar.max_retries = 3 /\ mar.calls = 3
    /\ OnlyRateLimited /\ Len(mar.sleeps) = 2

\* The outcomes that end a request of execute_batch_requests: handled by
\* response_handler as a success, or logged as a failure that nothing follows.
HandledOutcomes == {"ok", "fallback_ok"}

TerminalFailureOutcomes == {"failed", "handler_error", "fallback_none", "fallback_handler_error"}

Handled(r) == \E i \in DOMAIN batch.hist[r] : batch.hist[r][i] \in HandledOutcomes

LoggedTerminalFailure(r) ==
    \E i \in DOMAIN batch.hist[r] : batch.hist[r][i] \in TerminalFailureOutcomes

\* C2: when execute_batch_requests returns, every request is exactly one of: handled as
\* a success, logged as a terminal failure.
C2_EveryRequestAccounted ==
    batch.pc = "returned" =>
        \A r \in 1..batch.R : Handled(r) # LoggedTerminalFailure(r)

\* C3: a create call that gave no identifier is the last create call of its run, and
\* the run has ended with it.
C3_NoCreateAfterFailure ==
    \A k \in DOMAIN Calls :
        ~GaveId(Calls[k]) => (k = Len(Calls) /\ clone.pc \in {"returned", "raised"})

\* The first of two ad sets came back without an identifier: the run has ended, with
\* the second ad set and the ads of both never attempted.
C3_Witness ==
    /\ clone.pc = "returned"
    /\ Len(clone.template.ad_sets) = 2 /\ Len(clone.template.ad_sets[1].ads) = 2
    /\ Len(Calls) = 2
    /\ Calls[2].kind = "adset" /\ Calls[2].ai = 1 /\ Calls[2].outcome = "no_id"

\* A run has aborted when its last create call gave no identifier.
Aborted == Calls # <<>> /\ ~GaveId(Calls[Len(Calls)])

\* C4: a run that aborts returns the Creation Result of the identifiers created before
\* the abort.
C4_PartialResultReturned ==
    (clone.pc = "returned" /\ Aborted /\ GaveId(Calls[1])) =>
        clone.result = CreationResult(clone)

\* The place of a create call in the order campaign, ad set, (creative, ad)*.
KindRank(kind) ==
    CASE kind = "campaign" -> 0 [] kind = "adset" -> 1 [] kind = "creative" -> 2
      [] kind = "ad" -> 3

ComesBefore(a, b) ==
    \/ a.ai < b.ai
    \/ (a.ai = b.ai /\ a.di < b.di)
    \/ (a.ai = b.ai /\ a.di = b.di /\ KindRank(a.kind) < KindRank(b.kind))

\* C5: the create calls come in the order campaign, then per ad set in template order
\* the ad set and per ad its creative followed by its ad; an ad set is created only
\* after the campaign gave an identifier, a creative or an ad only after its ad set
\* gave one, an ad only right after its creative gave one.
C5_CreateOrder ==
    \A k \in DOMAIN Calls :
        /\ (k = 1) = (Calls[k].kind = "campaign")
        /\ (k > 1 => ComesBefore(Calls[k - 1], Calls[k]))
        /\ (Calls[k].kind = "adset" =>
               /\ GaveId(Calls[1])
               /\ \/ Calls[k].ai = 1
                  \/ \E j \in 1..(k - 1) :
                        Calls[j].kind = "adset" /\ Calls[j].ai = Calls[k].ai - 1)
        /\ (Calls[k].kind \in {"creative", "ad"} =>
               \E j \in 1..(k - 1) :
                  Calls[j].kind = "adset" /\ Calls[j].ai = Calls[k].ai /\ GaveId(Calls[j]))
        /\ (Calls[k].kind = "ad" =>
               /\ Calls[k - 1].kind = "creative" /\ GaveId(Calls[k - 1])
               /\ Calls[k - 1].ai = Calls[k].ai /\ Calls[k - 1].di = Calls[k].di)
        /\ (Calls[k].kind = "creative" /\ k < Len(Calls) =>
               /\ Calls[k + 1].kind = "ad"
               /\ Calls[k + 1].ai = Calls[k].ai /\ Calls[k + 1].di = Calls[k].di)

\* A whole tree of two ad sets with two ads each has been created.
C5_Witness ==
    /\ clone.pc = "returned" /\ clone.result = CreationResult(clone)
    /\ Len(clone.created_adsets) = 2 /\ Len(clone.created_ads) = 4
    /\ Len(Calls) = 11

\* The identifiers of the source tree.
SourceIds ==
    {clone.template.campaign["id"]}
    \cup {clone.template.ad_sets[i].fields["id"] : i \in DOMAIN clone.template.ad_sets}
    \cup UNION { UNION { {clone.template.ad_sets[i].ads[j].fields["id"],
                          clone.template.ad_sets[i].ads[j].fields["creative"].d["id"]} :
                            j \in DOMAIN clone.template.ad_sets[i].ads } :
                    i \in DOMAIN clone.template.ad_sets }

\* The create call of the ad set that a later call belongs to.
AdSetCallOf(k) ==
    CHOOSE j \in 1..(k - 1) : Calls[j].kind = "adset" /\ Calls[j].ai = Calls[k].ai

\* C6: every ad-set payload sent names this run's new campaign as campaign_id, every ad
\* payload sent names this run's new ad set as adset_id and the creative just created
\* as creative.creative_id; none of them names an object of the source tree.
C6_ParentReferences ==
    \A k \in DOMAIN Calls :
        /\ (Calls[k].kind = "adset" =>
               /\ "campaign_id" \in DOMAIN Calls[k].payload.d
               /\ Calls[k].payload.d["campaign_id"] = Calls[1].id
               /\ Calls[k].payload.d["campaign_id"] \notin SourceIds)
        /\ (Calls[k].kind = "ad" =>
               /\ {"adset_id", "creative"} \subseteq DOMAIN Calls[k].payload.d
               /\ Calls[k].payload.d["adset_id"] = Calls[AdSetCallOf(k)].id
               /\ Calls[k].payload.d["creative"] = PyDict("creative_id" :> Calls[k - 1].id)
               /\ Calls[k].payload.d["adset_id"] \notin SourceIds
               /\ Calls[k - 1].id \notin SourceIds)

\* An ad has been sent in a run whose overrides named the source campaign, the source
\* ad set and the source creative as parents.
C6_Witness ==
    /\ \E k \in DOMAIN Calls : Calls[k].kind = "ad" /\ Calls[k].ai = 2
    /\ 1 \in DOMAIN clone.user_inputs.ad_sets
    /\ "campaign_id" \in DOMAIN clone.user_inputs.ad_sets[1].fields
    /\ clone.user_inputs.ad_sets[1].fields["campaign_id"] \in SourceIds

\* The budget the run is given for a campaign field: the override, else the template's.
CampaignInput(field) ==
    IF field \in DOMAIN clone.user_inputs.campaign THEN clone.user_inputs.campaign[field]
    ELSE Get(clone.template.campaign, field)

\* The budget inputs of the model that are no positive amount.
NonPositiveInputs == {None, Str(<<"0">>), Str(<<"x">>), PyFloat(0)}

NoPositiveCampaignBudget ==
    /\ clone.pc # "idle"
    /\ \A field \in {"daily_budget", "lifetime_budget"} : CampaignInput(field) \in NonPositiveInputs

\* C7: with is_cbo true and no campaign budget that is a positive amount, the run makes
\* no create call at all and ends by raising the assembly error.
C7_CboNeedsBudget ==
    (clone.is_cbo /\ NoPositiveCampaignBudget) =>
        /\ Calls = <<>>
        /\ clone.pc \in {"start", "raised"}
        /\ (clone.pc = "raised" => clone.error = "assembly")

\* CBO was requested for a template whose budgets are both 0: the assembly error.
C7_Witness ==
    /\ clone.pc = "raised" /\ clone.error = "assembly" /\ clone.is_cbo /\ Calls = <<>>
    /\ Get(clone.template.campaign, "daily_budget") = Str(<<"0">>)
    /\ Get(clone.template.campaign, "lifetime_budget") = Str(<<"0">>)
    /\ clone.user_inputs.campaign = <<>>

\* C8: the budget fields are on one level: with is_cbo the campaign payload sent holds
\* a budget and no ad-set payload sent holds one, without is_cbo the campaign payload
\* holds none and every ad-set payload sent holds one.
C8_BudgetOnOneLevel ==
    \A k \in DOMAIN Calls :
        /\ (Calls[k].kind = "campaign" => ((BudgetKeys(Calls[k].payload) # {}) = clone.is_cbo))
        /\ (Calls[k].kind = "adset" => ((BudgetKeys(Calls[k].payload) # {}) = ~clone.is_cbo))

\* A CBO run over a template whose campaign and ad sets all hold budgets has sent the
\* campaign and two ad sets.
C8_Witness ==
    /\ clone.is_cbo
    /\ BudgetKeys(PyDict(clone.template.campaign)) # {}
    /\ \E k \in DOMAIN Calls :
          /\ Calls[k].kind = "adset" /\ Calls[k].ai = 2
          /\ BudgetKeys(PyDict(clone.template.ad_sets[2].fields)) # {}

\* C9: no failure of a remote call leaves make_api_request or create_ad_object as an
\* exception: the run never ends by an exception of a create call.
C9_NoRemoteExceptionEscapes == mar.pc # "raised" /\ clone.error # "remote"

\* The dict with the budgets, in a payload of a form.
BudgetDictIn(form, payload) ==
    CASE form = "top" -> payload
      [] form = "nested" -> payload.d["promoted_object"]
      [] form = "list" -> payload.l[1]

\* The budget fields left in the dict that held both.
BudgetsLeft == BudgetKeys(BudgetDictIn(san.form, san.result))

C11_Idempotent == san.pc = "twice" => san.second = san.first

\* The schema of a kind.
SchemaOf(kind) ==
    CASE kind = "campaign" -> Range(CAMPAIGN_POST_FIELDS)
      [] kind = "adset" -> Range(ADSET_POST_FIELDS)
      [] kind = "ad" -> Range(AD_POST_FIELDS)

\* What normalize_input_value resolves the field of an assembly to.
Resolved ==
    normalize_input_value(san.field,
                          IF san.value # Absent THEN san.value
                          ELSE IF san.original # Absent THEN san.original ELSE None,
                          IF san.original # Absent THEN san.original ELSE None)

\* The fields of a kind that its sanitize_*_payload function passes to
\* normalize_input_value: the schema without the parent references it sets itself.
NormalizedFields(kind) ==
    SchemaOf(kind) \ (CASE kind = "adset" -> {"campaign_id"}
                        [] kind = "ad" -> {"creative", "adset_id"}
                        [] OTHER -> {})

\* C12 as stated: the payload holds no None, and every field that normalize_input_value
\* resolves to None is absent from it.
C12_AsStated ==
    san.pc = "built" =>
        /\ \A k \in DOMAIN san.payload : san.payload[k] # None
        /\ (Resolved = None /\ san.field \in NormalizedFields(san.kind)) =>
               san.field \notin DOMAIN san.payload

\* C12: a payload built by sanitize_campaign_payload, sanitize_adset_payload or
\* sanitize_ad_payload holds no field whose value is None; a field that
\* normalize_input_value resolves to None is absent from it, except status, which is
\* then present with the value PAUSED.
C12_NoNoneField ==
    san.pc = "built" =>
        /\ \A k \in DOMAIN san.payload : san.payload[k] # None
        /\ (Resolved = None /\ san.field \in NormalizedFields(san.kind)) =>
               IF san.field = "status"
                 THEN san.payload["status"] = Str(<<"P", "A", "U", "S", "E", "D">>)
                 ELSE san.field \notin DOMAIN san.payload

\* The template holds a field of the schema, the operator's input resolves it to None,
\* and the payload is built without it.
C12_Witness ==
    /\ san.pc = "built"
    /\ san.field \in NormalizedFields(san.kind) \ {"status"}
    /\ san.original \notin {Absent, None} /\ san.value # Absent
    /\ san.field = "daily_budget" => (san.is_cbo <=> san.kind = "campaign")
    /\ Resolved = None
    /\ san.field \notin DOMAIN san.payload

\* The dict that held the field, in a result of sanitize_payload.
ProbeDictIn(form, result) ==
    CASE form = "top" -> result.d
      [] form = "nested" -> result.d["promoted_object"].d
      [] form = "list" -> result.l[1].d
      [] form = "deep" -> result.d["targeting"].l[1].d

\* The keys of the model that end in _id or _ids or are a known identifier key.
IdentifierKeys ==
    {"id", "account_id", "campaign_id", "adset_id", "creative_id", "parent_id",
     "existing_creative_id", "page_id", "video_id", "retailer_item_ids"}

\* C13: the numeric string held by an identifier field, at any depth, is the same
\* string after sanitize_payload, and after sanitize_payload has run again.
C13_IdentifiersKept ==
    (san.probe.key \in IdentifierKeys /\ san.probe.v.t = "str") =>
        /\ san.pc \in {"once", "twice"} =>
               ProbeDictIn(san.form, san.first)[san.probe.key] = san.probe.v
        /\ san.pc = "twice" =>
               ProbeDictIn(san.form, san.second)[san.probe.key] = san.probe.v

\* A page_id inside a list of a payload is still the string "10" after both runs.
C13_Witness ==
    /\ san.pc = "twice" /\ san.form = "deep" /\ san.probe.key = "page_id"
    /\ ProbeDictIn(san.form, san.second)["page_id"] = Str(<<"1", "0">>)

\* C14: every payload sent to the create call of a campaign, an ad set or an ad holds
\* only field names of the POST schema of its kind.
C14_OnlySchemaFields ==
    \A k \in DOMAIN Calls :
        Calls[k].kind \in {"campaign", "adset", "ad"} =>
            DOMAIN Calls[k].payload.d \subseteq SchemaOf(Calls[k].kind)


\* The objects of the template graph.
TemplateObjects ==
    {"t_campaign", "t_promoted", "t_adset", "t_targeting", "t_ad", "t_tracking",
     "t_creative", "t_custom"}

\* C15: a cloning run never modifies the template graph: at every point of the run,
\* whether it goes on, returns None or raises, every object of the template holds what
\* it held when the run started.
C15_TemplateUntouched ==
    mem.pc # "idle" => \A a \in TemplateObjects : mem.heap[a] = mem.template[a]

\* The campaign has been created from a payload that holds the template's own
\* promoted_object: the params sent hold the number 42 where the template holds '42'.
C15_Witness ==
    /\ mem.pc = "assemble" /\ mem.stage = 2
    /\ mem.heap["payload"].d["promoted_object"] = Ref("t_promoted")
    /\ mem.heap["params"].d["promoted_object"].d["name"] = PyInt(42)
    /\ mem.heap["t_promoted"].d["name"] = Str(<<"4", "2">>)

\* C16: once upload_asset has returned or raised after an upload, whatever the upload
\* gave (an identifier, None, a response without identifier, a video that fails to
\* process or is not ready in time), the temporary file it created exists no longer.
C16_TempFileRemoved ==
    up.pc \in {"returned", "raised"} /\ up.uploads > 0 => ~up.file_exists

\* The uploader page has given up on a video whose processing timed out after several
\* status requests.
C16_Witness ==
    /\ up.pc = "raised" /\ up.error = "timeout" /\ up.polls > 2
    /\ up.page = "uploader" /\ ~up.file_exists

\* C17: in make_api_request a call that raises a platform error that is not rate
\* limited (its code is no rate-limit code and its subcode no account-throttling
\* subcode), or any other exception, is the last call: the function has returned None,
\* without a sleep after that call and without another call, whatever max_retries is;
\* when it is the first call, exactly one call has been made and no sleep taken.
C17_FatalErrorEndsRequest ==
    \A i \in DOMAIN mar.outcomes :
        mar.outcomes[i] \in {"fatal", "exception"} =>
            /\ i = Len(mar.outcomes) /\ mar.calls = i
            /\ mar.pc = "returned" /\ mar.result = "None"
            /\ Len(mar.sleeps) = i - 1

\* With three retries allowed, the first call raised a platform error that is not rate
\* limited: one call, no sleep, None.
C17_Witness ==
    /\ mar.max_retries = 3 /\ mar.outcomes = <<"fatal">>
    /\ mar.pc = "returned" /\ mar.result = "None" /\ mar.calls = 1 /\ mar.sleeps = <<>>

\* C18: the i-th sleep of make_api_request follows failed attempt number i - 1 and
\* lasts initial_backoff * 2^(i-1) seconds plus a jitter between 0 and 0.5 seconds,
\* except after an error with an account-level throttling subcode, where the part
\* before the jitter is the larger of that and 600 seconds (sleeps are in tenths).
C18_SleepTime ==
    \A i \in DOMAIN mar.sleeps :
        /\ mar.sleeps[i].attempt = i - 1
        /\ IF mar.sleeps[i].err.subcode \in ACCOUNT_RATE_LIMIT_SUBCODES
             THEN mar.sleeps[i].tenths
                    - 10 * Max(mar.initial_backoff * 2^(i - 1), ACCOUNT_RATE_LIMIT_BACKOFF_SECONDS)
                  \in 0..5
             ELSE mar.sleeps[i].tenths - 10 * mar.initial_backoff * 2^(i - 1) \in 0..5

\* Two sleeps with an initial backoff of 5 seconds: 600.5 s after an error with an
\* account-level throttling subcode, then 10.2 s after a rate-limit code.
C18_Witness ==
    /\ mar.initial_backoff = 5 /\ Len(mar.sleeps) = 2
    /\ mar.sleeps[1].err.subcode = 2446079 /\ mar.sleeps[1].tenths = 6005
    /\ mar.sleeps[2].err.subcode = 0 /\ mar.sleeps[2].tenths = 102

\* C19: in execute_batch_requests a request is scheduled for another round only when
\* the error body of its failure says rate limiting (by its code, its subcode or its
\* message); a request whose failure says anything else is not scheduled, and its
\* failure is the last thing that happens to it: no later round and no sequential
\* fallback issues it again.
C19_OnlyRateLimitedRequeued ==
    \A r \in DOMAIN batch.hist :
        /\ \A i \in DOMAIN batch.hist[r] :
              /\ batch.hist[r][i] = "failed" => i = Len(batch.hist[r])
              /\ (batch.hist[r][i] = "requeued" /\ i = Len(batch.hist[r]))
                    => batch.last_error[r] = "rate_limit"
        /\ batch.last_error[r] = "other" =>
              /\ r \notin Range(batch.remaining)
              /\ batch.hist[r][Len(batch.hist[r])] = "failed"
        /\ (r \in Range(batch.remaining) /\ batch.hist[r] # <<>>)
              => batch.last_error[r] = "rate_limit"

\* Two requests of one chunk: the first failed with another error in the first round
\* and was left alone, the second was rate limited in both rounds and then served by
\* the sequential fallback.
C19_Witness ==
    /\ batch.pc = "returned" /\ batch.R = 2 /\ Len(batch.chunks) = 1
    /\ batch.hist[1] = <<"failed">>
    /\ batch.hist[2] = <<"requeued", "requeued", "fallback_ok">>

\* The fallback outcomes of a request.
FallbackOutcomes == {"fallback_ok", "fallback_none", "fallback_handler_error"}

\* The rounds issued for a chunk.
RoundsOf(c) == {i \in DOMAIN batch.rounds : batch.rounds[i].chunk = c}

\* What holds of the rounds and of the fallback at every point of a run: a chunk gets
\* at most max(1, max_chunk_retries) rounds; a request is executed by the fallback at
\* most once, as the last thing that happens to it, and only after it was scheduled
\* for a retry in every allowed round of its chunk.
BoundedRoundsThenFallback ==
    /\ \A c \in DOMAIN batch.chunks : Cardinality(RoundsOf(c)) <= Max(1, batch.max_chunk_retries)
    /\ \A r \in DOMAIN batch.hist : \A i \in DOMAIN batch.hist[r] :
          batch.hist[r][i] \in FallbackOutcomes =>
              /\ i = Len(batch.hist[r])
              /\ i = Max(1, batch.max_chunk_retries) + 1
              /\ \A j \in 1..(i - 1) : batch.hist[r][j] = "requeued"

\* When the function has returned, every chunk has had its round and every request
\* that was still scheduled for a retry after the last round has been executed by the
\* fallback, whatever happened to the fallback requests and the chunks before it.
AllChunksAndFallbacksDone ==
    batch.pc = "returned" =>
        /\ \A c \in DOMAIN batch.chunks : RoundsOf(c) # {}
        /\ \A r \in DOMAIN batch.hist :
              /\ batch.hist[r] # <<>>
              /\ batch.hist[r][Len(batch.hist[r])] # "requeued"

\* C20: execute_batch_requests issues at most max(1, max_chunk_retries) batch rounds
\* for a chunk, executes each request still rate limited after the last round once, on
\* its own, in the sequential fallback, goes on with the remaining fallback requests
\* and the later chunks after a fallback request has failed, and returns.
C20_BoundedRoundsAndTermination ==
    /\ [](BoundedRoundsThenFallback /\ AllChunksAndFallbacksDone)
    /\ <>(batch.pc = "returned")

\* Three requests in two chunks and two rounds per chunk: the fallback of the first
\* request failed, the second request was served by the fallback after it, and the
\* second chunk was executed.
C20_Witness ==
    /\ batch.pc = "returned" /\ batch.R = 3 /\ Len(batch.chunks) = 2
    /\ batch.max_chunk_retries = 2
    /\ batch.hist[1] = <<"requeued", "requeued", "fallback_none">>
    /\ batch.hist[2] = <<"requeued", "requeued", "fallback_ok">>
    /\ batch.hist[3] = <<"ok">>

\* The chunks are consecutive slices of the requests 1..R, each of 1..size requests,
\* every request in exactly one of them, and every batch round issues at most size
\* requests, all of the chunk under work.
ChunkedBy(size) ==
    /\ \A c \in DOMAIN batch.chunks :
          /\ Len(batch.chunks[c]) \in 1..size
          /\ \A k \in DOMAIN batch.chunks[c] :
                batch.chunks[c][k] = (c - 1) * Len(batch.chunks[1]) + k
    /\ \A r \in 1..batch.R :
          Cardinality({c \in DOMAIN batch.chunks : r \in Range(batch.chunks[c])}) = 1
    /\ \A i \in DOMAIN batch.rounds :
          /\ Len(batch.rounds[i].entries) <= size
          /\ Range(batch.rounds[i].entries) \subseteq Range(batch.chunks[batch.rounds[i].chunk])

\* C21 as stated: the chunks hold at most max(1, chunk_size) requests and no round
\* holds more than chunk_size requests.
C21_AsStated ==
    batch.pc # "idle" =>
        /\ ChunkedBy(Max(1, batch.chunk_size))
        /\ \A i \in DOMAIN batch.rounds : Len(batch.rounds[i].entries) <= batch.chunk_size

\* C21: execute_batch_requests partitions the requests into consecutive chunks of at
\* most max(1, chunk_size) requests, each request in exactly one chunk, and a batch
\* round holds at most max(1, chunk_size) requests, all of one chunk.
C21_ChunksPartition == batch.pc # "idle" => ChunkedBy(Max(1, batch.chunk_size))

\* Three requests in chunks of two: the second chunk holds the third request, and a
\* retry round of the first chunk held its second request alone.
C21_Witness ==
    /\ batch.pc = "returned" /\ batch.chunk_size = 2
    /\ batch.chunks = <<(<<1, 2>>), (<<3>>)>>
    /\ \E i \in DOMAIN batch.rounds : batch.rounds[i].entries = <<2>>
    /\ \E i \in DOMAIN batch.rounds : batch.rounds[i].entries = <<3>>

\* The ad at a position of the template graph has a creative template.
HasCreativeTemplate(i, j) == clone.template.ad_sets[i].ads[j].creative_details.t = "dict"

\* C22: an ad without a creative template is skipped: no creative and no ad create is
\* ever issued for it; the skip does not end the run (a run ends without a result only
\* after an assembly error or a create call that gave no identifier), and a run that
\* completes has issued the create of every ad set and the creative and ad creates of
\* every ad with a creative template, the skipped ad's siblings and the later ad sets
\* included.
C22_AdWithoutCreativeSkipped ==
    /\ \A k \in DOMAIN Calls :
          Calls[k].kind \in {"creative", "ad"} => HasCreativeTemplate(Calls[k].ai, Calls[k].di)
    /\ clone.pc = "raised" =>
          \/ clone.error = "assembly"
          \/ Calls # <<>> /\ Calls[Len(Calls)].outcome = "exception"
    /\ (clone.pc = "returned" /\ clone.result = None) =>
          Calls # <<>> /\ ~GaveId(Calls[Len(Calls)])
    /\ (clone.pc = "returned" /\ clone.result # None) =>
          \A i \in DOMAIN clone.template.ad_sets :
             /\ \E k \in DOMAIN Calls : Calls[k].kind = "adset" /\ Calls[k].ai = i
             /\ \A j \in DOMAIN clone.template.ad_sets[i].ads :
                   HasCreativeTemplate(i, j) =>
                      \A kind \in {"creative", "ad"} :
                         \E k \in DOMAIN Calls :
                            Calls[k].kind = kind /\ Calls[k].ai = i /\ Calls[k].di = j

\* A run over two ad sets of two ads each, the first ad of each without a creative
\* template, has completed: seven creates, the second ad of each ad set among them.
C22_Witness ==
    /\ clone.pc = "returned" /\ clone.result # None
    /\ Len(clone.template.ad_sets) = 2 /\ Len(clone.template.ad_sets[1].ads) = 2
    /\ ~HasCreativeTemplate(1, 1) /\ ~HasCreativeTemplate(2, 1)
    /\ Len(Calls) = 7 /\ Len(clone.created_ads) = 2
    /\ \E k \in DOMAIN Calls : Calls[k].kind = "ad" /\ Calls[k].ai = 2 /\ Calls[k].di = 2

\* The retailer ids of an input: its comma-separated tokens, trimmed, the empty ones
\* and the repeats of an earlier one left out.
RECURSIVE FirstOccurrences(_)
FirstOccurrences(s) ==
    IF s = <<>> THEN <<>>
    ELSE FirstOccurrences(SubSeq(s, 1, Len(s) - 1))
         \o (IF s[Len(s)] \in Range(SubSeq(s, 1, Len(s) - 1)) THEN <<>> ELSE <<s[Len(s)]>>)

ExpectedRetailerIds ==
    IF san.retailer_ids = Absent THEN <<>>
    ELSE FirstOccurrences(StripNonEmpty(SplitComma(san.retailer_ids.s, <<>>)))

\* The story spec of the payload built, and its sections that take retailer ids.
BuiltStorySpec == san.payload.d["object_story_spec"].d

RetailerSections == {s \in {"link_data", "video_data", "template_data"} :
                        SectionIsDict(BuiltStorySpec, s)}

\* C23: every retailer id list of the creative payload built (the payload's own, the
\* story spec's and the one of each of its link_data, video_data and template_data
\* sections) is the list of the input's trimmed non-empty tokens without repeats, in
\* the order of their first occurrence, and there is none when that list is empty.
C23_RetailerIdsDeduplicated ==
    san.pc = "creative" =>
        /\ Get(san.payload.d, "retailer_item_ids")
             = (IF ExpectedRetailerIds = <<>> THEN None ELSE PyList(ExpectedRetailerIds))
        /\ Get(BuiltStorySpec, "retailer_item_ids")
             = (IF ExpectedRetailerIds = <<>> THEN None ELSE PyList(ExpectedRetailerIds))
        /\ \A s \in RetailerSections :
             Get(BuiltStorySpec[s].d, "retailer_item_ids")
               = (IF ExpectedRetailerIds = <<>> THEN None ELSE PyList(ExpectedRetailerIds))

\* The same for the story spec and its sections only.
RetailerIdsDeduplicatedInStorySpec ==
    san.pc = "creative" =>
        /\ Get(BuiltStorySpec, "retailer_item_ids")
             = (IF ExpectedRetailerIds = <<>> THEN None ELSE PyList(ExpectedRetailerIds))
        /\ \A s \in RetailerSections :
             Get(BuiltStorySpec[s].d, "retailer_item_ids")
               = (IF ExpectedRetailerIds = <<>> THEN None ELSE PyList(ExpectedRetailerIds))

\* The asset selected in the creative inputs, None when none is or the session has no
\* asset of that name; the key of its kind of asset and of the other kind.
SelectedAsset ==
    IF san.asset_name \in DOMAIN SessionAssets THEN SessionAssets[san.asset_name] ELSE None

AssetKey(key) == IF key = ImageHashKey THEN "image_hash" ELSE "video_id"

OtherAssetKey(key) == IF key = ImageHashKey THEN "video_id" ELSE "image_hash"

\* C24: when the asset selected for the ad has the key image_hash (or video_id) and a
\* value, and the story spec of the creative template has a link_data section, the
\* link_data of the payload built holds the value under image_hash (video_id) and has
\* no video_id (image_hash) key.
C24_AssetInLinkData ==
    (/\ san.pc = "creative" /\ SelectedAsset # None /\ Truthy(SelectedAsset.d["value"])
     /\ san.story_spec # Absent /\ SectionIsDict(san.story_spec.d, "link_data"))
    => /\ SectionIsDict(BuiltStorySpec, "link_data")
       /\ Get(BuiltStorySpec["link_data"].d, AssetKey(SelectedAsset.d["key"]))
            = SelectedAsset.d["value"]
       /\ OtherAssetKey(SelectedAsset.d["key"]) \notin DOMAIN BuiltStorySpec["link_data"].d

\* The template's link_data held a video_id and the asset selected is an image: the
\* link_data built holds the image's hash and no video_id.
C24_Witness ==
    /\ san.pc = "creative" /\ san.asset_name = Str(<<"i">>)
    /\ san.story_spec # Absent /\ SectionIsDict(san.story_spec.d, "link_data")
    /\ "video_id" \in DOMAIN san.story_spec.d["link_data"].d
    /\ BuiltStorySpec["link_data"].d["image_hash"] = Str(<<"a", "b", "c", "1", "2", "3">>)
    /\ "video_id" \notin DOMAIN BuiltStorySpec["link_data"].d

\* The list fields that sanitize_payload normalizes with _normalize_string_collection.
StringCollectionFields ==
    {"special_ad_categories", "brand_safety_content_filter_levels",
     "brand_safety_content_severity_levels", "excluded_brand_safety_content_types"}

\* A list of strings, each trimmed and not empty.
TrimmedStrings(v) ==
    /\ v.t = "list"
    /\ \A k \in DOMAIN v.l : v.l[k].t = "str" /\ v.l[k].s # <<>> /\ Strip(v.l[k].s) = v.l[k].s

NoRepeat(v) == \A k, m \in DOMAIN v.l : v.l[k] = v.l[m] => k = m

\* C25: after sanitize_payload, special_ad_categories and each brand-safety list field
\* that is present is a list of trimmed, non-empty strings in which no entry occurs
\* twice.
C25_StringCollectionsDeduplicated ==
    san.pc \in {"once", "twice"} =>
        \A f \in StringCollectionFields \cap DOMAIN ProbeDictIn(san.form, san.first) :
            /\ TrimmedStrings(ProbeDictIn(san.form, san.first)[f])
            /\ NoRepeat(ProbeDictIn(san.form, san.first)[f])

\* The same without the demand that no entry occurs twice.
StringCollectionsTrimmed ==
    san.pc \in {"once", "twice"} =>
        \A f \in StringCollectionFields \cap DOMAIN ProbeDictIn(san.form, san.first) :
            TrimmedStrings(ProbeDictIn(san.form, san.first)[f])

\* The start_time given and the start_time left by the first and by the second run,
\* as instants in tenths of a second.
StartTimeGiven == ParseDatetimeValue(san.probe.v)

StartTimeLeft(result) == ParseDatetimeValue(ProbeDictIn(san.form, result)["start_time"])

StartTimeKept(result) == "start_time" \in DOMAIN ProbeDictIn(san.form, result)

\* The whole second an instant lies in.
WholeSecond(at) == (at \div 10) * 10

\* The statement with "now" taken as the clock reading itself: a start_time left in
\* the payload is not earlier than the clock reading of the run.
C26_AsStated ==
    /\ (san.pc \in {"once", "twice"} /\ StartTimeKept(san.first))
         => StartTimeLeft(san.first).at >= san.now_utc
    /\ (san.pc = "twice" /\ StartTimeKept(san.second))
         => StartTimeLeft(san.second).at >= san.later_utc

\* C26: after sanitize_payload a start_time present in the payload is not earlier than
\* the whole second in which the run read the clock; a start_time that parses to an
\* instant before the clock reading is replaced by that whole second, a start_time
\* that is empty or does not parse is removed.
C26_StartTimeNotBeforeNow ==
    (san.probe.key = "start_time" /\ san.pc \in {"once", "twice"}) =>
        /\ StartTimeKept(san.first) <=> StartTimeGiven.some
        /\ StartTimeKept(san.first) =>
              /\ StartTimeLeft(san.first).at >= WholeSecond(san.now_utc)
              /\ StartTimeGiven.at < san.now_utc
                    => StartTimeLeft(san.first).at = WholeSecond(san.now_utc)
        /\ (san.pc = "twice" /\ StartTimeKept(san.second))
              => StartTimeLeft(san.second).at >= WholeSecond(san.later_utc)

\* A start_time of second 1 sanitized when the clock reads 9.5 s: second 9 is written.
C26_Witness ==
    /\ san.pc = "once" /\ san.probe.key = "start_time" /\ san.now_utc = 95
    /\ san.probe.v = Str(<<"T", "1", "+">>)
    /\ ProbeDictIn(san.form, san.first)["start_time"] = Str(<<"T", "9", "+">>)

\* The run is about to work on an ad set whose sanitized payload has no budget, and
\* has no CBO.
AdSetWithoutBudgetNext ==
    /\ clone.pc = "adset_loop" /\ clone.ai <= Len(clone.template.ad_sets)
    /\ ~clone.is_cbo
    /\ "daily_budget" \notin DOMAIN AdSetParams(clone).d
    /\ "lifetime_budget" \notin DOMAIN AdSetParams(clone).d

\* The run has left with the assembly error of an ad set.
AdSetAssemblyErrorRaised ==
    clone.pc = "raised" /\ clone.error = "assembly" /\ clone.ai >= 1

\* C27: in a run without CBO, an ad set whose sanitized payload has neither budget
\* makes the run raise the assembly error with no create call made for it: the calls
\* made so far and the objects created stay as they were, no call of that ad set, of
\* its ads or of a later ad set is on record, and the run makes no further step.
C27_AdSetWithoutBudgetRaises ==
    /\ [][AdSetWithoutBudgetNext =>
            /\ clone'.pc = "raised" /\ clone'.error = "assembly"
            /\ clone'.calls = clone.calls
            /\ clone'.created_adsets = clone.created_adsets
            /\ clone'.created_ads = clone.created_ads
            /\ clone'.new_campaign_id = clone.new_campaign_id]_vars
    /\ [][clone.pc = "raised" => clone' = clone]_vars
    /\ [](AdSetAssemblyErrorRaised =>
            /\ \A k \in DOMAIN Calls : Calls[k].ai < clone.ai
            /\ Len(clone.created_adsets) = clone.ai - 1
            /\ \A k \in DOMAIN Calls : Calls[k].outcome = "id")

\* The second ad set of a run has no budget: the run has raised, the campaign, the
\* first ad set and its two ads are created and stay on record.
C27_Witness ==
    /\ AdSetAssemblyErrorRaised /\ clone.ai = 2
    /\ Len(clone.created_adsets) = 1 /\ Len(clone.created_ads) = 2
    /\ \A k \in DOMAIN Calls : Calls[k].ai < 2

\* The run has returned after its last create call gave an identifier.
Completed == clone.pc = "returned" /\ Calls # <<>> /\ GaveId(Calls[Len(Calls)])

\* The identifiers that the create calls of a set of kinds gave, in call order.
RECURSIVE IdsGiven(_, _)
IdsGiven(calls, kinds) ==
    IF calls = <<>> THEN <<>>
    ELSE IdsGiven(SubSeq(calls, 1, Len(calls) - 1), kinds)
         \o (IF calls[Len(calls)].kind \in kinds THEN <<calls[Len(calls)].id>> ELSE <<>>)

\* The identifiers of a result, campaign first, then the ad sets, then the ads.
ResultIds(result) == <<result.campaign_id>> \o result.adset_ids \o result.ad_ids

\* Every identifier given by a call of the kinds is once in the result and the result
\* holds nothing else.
ListsExactlyOnce(result, kinds) ==
    /\ \A k, m \in DOMAIN ResultIds(result) :
           ResultIds(result)[k] = ResultIds(result)[m] => k = m
    /\ Range(ResultIds(result)) = Range(IdsGiven(Calls, kinds))

\* The statement with the identifiers of all create calls, the creatives' included.
C28_AsStated ==
    Completed => ListsExactlyOnce(clone.result, {"campaign", "adset", "creative", "ad"})

\* C28: the result of a run that completes holds the identifier the campaign's create
\* gave, under adset_ids the identifier of every ad set of the template in template
\* order, under ad_ids the identifier of every ad with a creative template in creation
\* order; every identifier given by the create of a campaign, an ad set or an ad is in
\* it once, it holds no other identifier, and none of a creative.
C28_ResultListsCreatedIds ==
    Completed =>
        /\ clone.result.campaign_id = Calls[1].id
        /\ Len(clone.result.adset_ids) = Len(clone.template.ad_sets)
        /\ \A i \in DOMAIN clone.template.ad_sets :
              \E k \in DOMAIN Calls :
                 /\ Calls[k].kind = "adset" /\ Calls[k].ai = i
                 /\ Calls[k].id = clone.result.adset_ids[i]
        /\ clone.result.ad_ids = IdsGiven(Calls, {"ad"})
        /\ \A i \in DOMAIN clone.template.ad_sets :
              \A j \in DOMAIN clone.template.ad_sets[i].ads :
                 HasCreativeTemplate(i, j)
                   <=> \E k \in DOMAIN Calls :
                          Calls[k].kind = "ad" /\ Calls[k].ai = i /\ Calls[k].di = j
        /\ ListsExactlyOnce(clone.result, {"campaign", "adset", "ad"})
        /\ Range(ResultIds(clone.result)) \cap Range(IdsGiven(Calls, {"creative"})) = {}

\* A run over two ad sets of two ads, the first ad of each without a creative
\* template, has completed: the result lists the campaign, two ad sets and two ads.
C28_Witness ==
    /\ Completed /\ Len(clone.template.ad_sets) = 2
    /\ Len(clone.template.ad_sets[1].ads) = 2 /\ ~HasCreativeTemplate(1, 1)
    /\ Len(clone.result.adset_ids) = 2 /\ Len(clone.result.ad_ids) = 2
    /\ Len(Calls) = 7

\* C29: create_ad_object makes its create call once: no two calls on record are for
\* the same object of the run, and a call that failed with a rate-limit error is the
\* last call of the run, which has returned None right after it, as after any other
\* error of the platform.
C29_CreateCalledOnce ==
    /\ \A k, m \in DOMAIN Calls :
          (Calls[k].kind = Calls[m].kind /\ Calls[k].ai = Calls[m].ai
           /\ Calls[k].di = Calls[m].di) => k = m
    /\ \A k \in DOMAIN Calls :
          Calls[k].outcome \in {"rate_limited", "fb_error"} =>
              /\ k = Len(Calls) /\ Calls[k].id = None
              /\ clone.pc = "returned" /\ clone.result = None

\* The create of the second ad set failed with a rate-limit error: it is the last of
\* the calls and the run has returned None.
C29_Witness ==
    /\ clone.pc = "returned" /\ clone.result = None /\ Len(Calls) >= 3
    /\ Calls[Len(Calls)].outcome = "rate_limited"
    /\ Calls[Len(Calls)].kind = "adset" /\ Calls[Len(Calls)].ai = 2

\* What is recorded for a request when response_handler was invoked for it: by its
\* success callback in a batch round, or by the sequential fallback.
SuccessCallbackRan == {"ok", "handler_error"}

HandlerInvoked == {"ok", "handler_error", "fallback_ok", "fallback_handler_error"}

\* C30: the success callback of a request is the last thing that happens to it: the
\* request is in no later round of its chunk and not in the sequential fallback, and
\* response_handler is invoked at most once for a request over the whole call.
C30_SucceededNeverReissued ==
    \A r \in DOMAIN batch.hist :
        /\ \A i \in DOMAIN batch.hist[r] :
              batch.hist[r][i] \in SuccessCallbackRan =>
                  /\ i = Len(batch.hist[r])
                  /\ r \notin Range(batch.remaining)
                  /\ r \notin Range(batch.failed_fallback)
        /\ Cardinality({i \in DOMAIN batch.hist[r] : batch.hist[r][i] \in HandlerInvoked}) <= 1
        /\ Cardinality({k \in DOMAIN batch.rounds : r \in Range(batch.rounds[k].entries)})
             <= Len(batch.hist[r])

\* Two requests of one chunk: the first succeeded in the first round and was in no
\* later round, the second was rate limited in both rounds and served by the fallback.
C30_Witness ==
    /\ batch.pc = "returned" /\ batch.R = 2 /\ Len(batch.chunks) = 1
    /\ batch.hist[1] = <<"ok">>
    /\ batch.hist[2] = <<"requeued", "requeued", "fallback_ok">>
    /\ Len(batch.rounds) = 2 /\ batch.rounds[2].entries = <<2>>

=============================================================================
